---- MODULE Spec2Model ----
EXTENDS Integers, Sequences, FiniteSets, TLC

(***************************************************************************)
(* Zeek script optimizer: Inliner (script_opt/Inline.cc) and the ZAM body  *)
(* interpreter (script_opt/ZAM/ZBody.cc).                                  *)
(*                                                                         *)
(* SpecAnalyze : the call-graph part of Inliner::Analyze (seeding, the     *)
(*               closure loop, the choice of the inlinable functions).     *)
(* SpecInline  : the rest of Analyze on an analysed program: the merge of  *)
(*               event handlers (CollapseEventHandlers) and InlineFunction *)
(*               for every body, with CheckForInlining and DoInline.       *)
(* SpecFrame   : a compiled body (ZBody) and its executions, one after the *)
(*               other (ZBody::ZBody, ZBody::DoExec).                      *)
(* SpecExec    : compiled bodies that call one another: the activations of *)
(*               DoExec, their frames and the error flag.                  *)
(* SpecVec     : the vector operations vec_exec and vec_coerce_*.          *)
(* SpecBuiltIn : ZAMCompiler::IsZAM_BuiltIn, the selection of instructions *)
(*               that replace calls to built-in functions.                 *)
(* SpecTelemetry : GetOrAdd of a telemetry metric family.                  *)
(***************************************************************************)

\* The script functions of the program under analysis.
Funcs == {"A", "B", "C"}

\* The one function that may have several bodies (several FuncInfo entries).
MultiFunc == "A"

Flavors == {"function", "event", "hook"}

\* Most bodies (FuncInfo entries) a function has.
MaxBodies == 2

\* Most distinct script functions one body calls directly.
MaxCalls == 2

\* Most call sites in one body.
MaxSites == 2

\* Inline.cc:12
MAX_INLINE_SIZE == 1000

\* Slots in a compiled body's frame (ZBody::frame_size).
FrameSize == 2

\* Most instructions in a compiled body (ZBody::end_pc).
MaxInsts == 3

\* Most executions of a compiled body.
MaxInvocations == 3

\* Most DoExec activations at a time.
MaxDepth == 3

\* Most elements of a vector operand.
MaxVecLen == 2

\* Width in bits of zeek_int_t and zeek_uint_t in the model (64 in the code).
IntBits == 3

\* Width in bits of int, the type of an instruction's slot, in the model (32
\* in the code).
SlotBits == 2

\* Most arguments of a call of cat.
MaxCatArgs == 9

\* Most calls of GetOrAdd on the metric family.
MaxGetOrAdd == 4

VARIABLES
    \* ---- the analysed program
    funcs,                \* Inliner::funcs: sequence of FuncInfo, one per body
    flavor,               \* Func::Flavor() of every function
    \* ---- Inliner::Analyze
    non_recursive_funcs,  \* Inliner::non_recursive_funcs
    call_set,             \* local call_set: function -> set of functions
    inline_ables,         \* Inliner::inline_ables (its key set)
    did_addition,         \* local did_addition
    todo,                 \* functions the current closure pass has yet to visit
    apc,                  \* position in Analyze
    ai,                   \* index into funcs of the loop at apc
    \* ---- the objects the inliner rewrites
    finfo,                \* per FuncInfo: Body(), ShouldAnalyze(), Scope(), Profile()
    stmts,                \* the statement bodies: call sites and StmtOptInfo counts
    func_bodies,          \* Func::GetBodies() of every function
    func_scope,           \* Func::GetScope()
    func_frame_size,      \* Func::FrameSize()
    \* ---- Inliner members
    num_stmts,
    num_exprs,
    curr_frame_size,
    max_inlined_frame_size,
    skipped_inlining,
    did_inline,
    \* ---- control
    stack,                \* the active InlineFunction / CollapseEventHandlers / DoInline calls
    merge_todo,           \* entries of event_handlers still to be processed
    ret_call,             \* argument of the last CheckForInlining that returned
    ret,                  \* its result: <<>> for a null pointer, else <<expr>>
    \* ---- history of the pass
    subst_total,          \* counts of all substitutions performed in the pass
    win_total,            \* the same, since the last PreInline
    min_refused,          \* smallest callee refused since the last PreInline, 0 if none
    refused,              \* a substitution was refused for its size in this pass
    merge_result,         \* per function: "none", "merged" or "aborted"
    \* ---- a compiled body (ZBody) and its executions
    non_recursive,        \* ZAMCompiler::NonRecursive() at construction
    managed_slots,        \* ZBody::managed_slots
    insts,                \* ZBody::insts
    fixed_frame,          \* ZBody::fixed_frame, NoFrame for a null pointer
    frame,                \* a frame allocated by the running DoExec, else NoFrame
    pc,                   \* DoExec's pc
    ZAM_error,            \* the error flag
    epc,                  \* position of the body: "idle" or "running"
    invocations,          \* completed calls of DoExec
    released,             \* per managed value created: how often it was released
    \* ---- compiled bodies that call one another
    zbodies,              \* per body: whether it has a fixed_frame, and its insts
    xstack,               \* the DoExec activations, innermost last
    new_frames,           \* frames allocated by "new ZVal[frame_size]" in DoExec
    runs,                 \* executions the host has started
    ended,                \* the activation that returned last, << >> if none
    profile_ZAM,          \* analysis_options.profile_ZAM
    caller_locs,          \* the locations of the calls under way, innermost last
    prof_vecs,            \* per body: the hit counts of each profile vector
    curr_prof_vec,        \* per body: ZBody::curr_prof_vec, as the vector's key
    \* ---- vector operations
    vcall,                \* the operation and its operands
    vres,                 \* << >>, or the result and the run-time errors reported
    \* ---- built-in function calls
    bif_call,             \* the expression e given to IsZAM_BuiltIn
    bif_out,              \* << >>, or what IsZAM_BuiltIn returned, appended and warned
    \* ---- telemetry
    family,               \* "" or the kind of the metric family
    metrics,              \* counters / gauges / histograms: the labels of each metric
    handles               \* per GetOrAdd call: the labels given, the metric returned

analyzeVars == <<funcs, flavor, non_recursive_funcs, call_set, inline_ables,
                 did_addition, todo, apc, ai>>

objectVars == <<finfo, stmts, func_bodies, func_scope, func_frame_size>>

inlinerVars == <<num_stmts, num_exprs, curr_frame_size, max_inlined_frame_size,
                 skipped_inlining, did_inline>>

controlVars == <<stack, merge_todo, ret_call, ret>>

historyVars == <<subst_total, win_total, min_refused, refused, merge_result>>

inlineVars == <<objectVars, inlinerVars, controlVars, historyVars>>

frameVars == <<non_recursive, managed_slots, insts, fixed_frame, frame, pc,
               ZAM_error, epc, invocations, released>>

profVars == <<profile_ZAM, caller_locs, prof_vecs, curr_prof_vec>>

execVars == <<zbodies, xstack, new_frames, runs, ended, profVars>>

\* The variables of the parts other than Analyze, the inlining pass and the
\* single body of SpecFrame.
vecVars == <<vcall, vres>>

bifVars == <<bif_call, bif_out>>

telemetryVars == <<family, metrics, handles>>

extVars == <<execVars, vecVars, bifVars, telemetryVars>>

vars == <<analyzeVars, inlineVars, frameVars, extVars>>

----------------------------------------------------------------------------
\* Generic helpers.

Range(s) == {s[i] : i \in DOMAIN s}

\* The map m with key k set to v (std::unordered_map::operator[] assignment).
MapPut(m, k, v) == [x \in DOMAIN m \cup {k} |-> IF x = k THEN v ELSE m[x]]

----------------------------------------------------------------------------
\* Inliner::Analyze, lines 23-41: one iteration of the priming loop, for the
\* FuncInfo f.  Yields the new non_recursive_funcs and call_set.

SeedNonRecursive(nr, f) ==
    (nr \cup {f.func}) \ (IF f.func \in f.calls THEN {f.func} ELSE {})

SeedCallSet(cs, f) == MapPut(cs, f.func, f.calls)

\* Inliner::Analyze, lines 58-98: one iteration of the loop over call_set,
\* for the entry of function c.  The inner loops read c.second and the sets
\* of the other functions and only write addls and non_recursive_funcs, so
\* their iteration order does not show.

VisitOthers(cs, c) == cs[c] \ {c}

\* addls without the test of lines 74-76 for what c has already.
VisitAddlsRepeated(cs, c) == UNION {cs[cc] : cc \in VisitOthers(cs, c)}

VisitAddls(cs, c) == (UNION {cs[cc] : cc \in VisitOthers(cs, c)}) \ cs[c]

\* The erasure of lines 88-89 without the test that cc's set holds c.
VisitErasedAllCallees(cs, c) ==
    IF c \in VisitAddls(cs, c) THEN {c} \cup VisitOthers(cs, c) ELSE {}

VisitErased(cs, c) ==
    IF c \in VisitAddls(cs, c)
    THEN {c} \cup {cc \in VisitOthers(cs, c) : c \in cs[cc]}
    ELSE {}

VisitCallSet(cs, c) == [cs EXCEPT ![c] = cs[c] \cup VisitAddls(cs, c)]

\* IsCandidate without the test of a precompiled body.
IsCandidateNoCppTest(f, flv, nr) ==
    /\ ~f.skip
    /\ flv[f.func] = "function"
    /\ f.func \in nr

\* Inliner::Analyze, lines 101-121: whether the FuncInfo f is a candidate.
IsCandidate(f, flv, nr) ==
    /\ ~f.skip
    /\ flv[f.func] = "function"
    /\ f.func \in nr
    /\ ~f.cpp

----------------------------------------------------------------------------
\* The analysed programs.  Every function has at least one body; only
\* MultiFunc has up to MaxBodies, and then it is an event or a hook (a plain
\* function has a single body).  At most one function is not a plain,
\* unflagged function.

CallSets == {s \in SUBSET Funcs : Cardinality(s) <= MaxCalls}

Marks == {"event", "hook", "skip", "cpp"}

FuncOrder == <<"A", "B", "C">>

MkFuncInfo(f, calls, mark) ==
    [func |-> f, calls |-> calls, skip |-> (mark = "skip"), cpp |-> (mark = "cpp")]

MkFlavor(special, mark) ==
    [f \in Funcs |-> IF f = special /\ mark \in {"event", "hook"} THEN mark
                     ELSE "function"]

\* The FuncInfo entries: the bodies of MultiFunc, then one body for each
\* other function.
MkFuncs(multiCalls, restCalls, special, mark) ==
    [i \in 1..Len(multiCalls) |->
        MkFuncInfo(MultiFunc, multiCalls[i], IF special = MultiFunc THEN mark ELSE "none")]
    \o [i \in 1..(Len(FuncOrder) - 1) |->
        MkFuncInfo(FuncOrder[i + 1], restCalls[FuncOrder[i + 1]],
                   IF special = FuncOrder[i + 1] THEN mark ELSE "none")]

\* The inliner before Analyze reaches CollapseEventHandlers.
\* A null frame pointer.
NoFrame == << >>

\* No compiled body is at hand.
FrameIdle ==
    /\ non_recursive = FALSE /\ managed_slots = {}
    /\ insts = << >>
    /\ fixed_frame = NoFrame /\ frame = NoFrame
    /\ pc = 0 /\ ZAM_error = FALSE
    /\ epc = "idle" /\ invocations = 0
    /\ released = << >>

\* No bodies are being executed.
ExecIdle ==
    /\ zbodies = << >> /\ xstack = << >>
    /\ new_frames = 0 /\ runs = 0
    /\ ended = << >>
    /\ profile_ZAM = FALSE /\ caller_locs = << >>
    /\ prof_vecs = << >> /\ curr_prof_vec = << >>

\* No vector operation is at hand.
VecIdle == vcall = << >> /\ vres = << >>

\* No call of a built-in function is being compiled.
BifIdle == bif_call = << >> /\ bif_out = << >>

\* There is no metric family.
TelemetryIdle == family = "" /\ metrics = << >> /\ handles = << >>

ExtIdle == ExecIdle /\ VecIdle /\ BifIdle /\ TelemetryIdle

InlineIdle ==
    /\ finfo = << >> /\ stmts = << >>
    /\ func_bodies = << >> /\ func_scope = << >> /\ func_frame_size = << >>
    /\ num_stmts = 0 /\ num_exprs = 0
    /\ curr_frame_size = 0 /\ max_inlined_frame_size = 0
    /\ skipped_inlining = {} /\ did_inline = {}
    /\ stack = << >> /\ merge_todo = {}
    /\ ret_call = << >> /\ ret = << >>
    /\ subst_total = 0 /\ win_total = 0 /\ min_refused = 0
    /\ refused = FALSE /\ merge_result = << >>

InitAnalyze ==
    /\ \E nb \in 1..MaxBodies :
       \E multiCalls \in [1..nb -> CallSets] :
       \E restCalls \in [Funcs \ {MultiFunc} -> CallSets] :
       \E special \in Funcs \cup {"none"} :
       \E mark \in Marks :
          /\ special = "none" => mark = "skip"
          /\ nb > 1 => (special = MultiFunc /\ mark \in {"event", "hook"})
          /\ funcs = MkFuncs(multiCalls, restCalls, special, mark)
          /\ flavor = MkFlavor(special, mark)
    /\ non_recursive_funcs = {}
    /\ call_set = << >>
    /\ inline_ables = {}
    /\ did_addition = TRUE
    /\ todo = {}
    /\ apc = "seed"
    /\ ai = 1
    /\ InlineIdle
    /\ FrameIdle
    /\ ExtIdle

----------------------------------------------------------------------------
\* Inliner::Analyze as steps.

\* Lines 23-41, one FuncInfo.
SeedFunc ==
    /\ apc = "seed"
    /\ ai <= Len(funcs)
    /\ non_recursive_funcs' = SeedNonRecursive(non_recursive_funcs, funcs[ai])
    /\ call_set' = SeedCallSet(call_set, funcs[ai])
    /\ ai' = ai + 1
    /\ apc' = IF ai = Len(funcs) THEN "loop" ELSE "seed"
    /\ UNCHANGED <<funcs, flavor, inline_ables, did_addition, todo>>
    /\ UNCHANGED <<inlineVars, frameVars, extVars>>

\* Line 54-55: the test of the while loop and the start of a pass.
LoopTest ==
    /\ apc = "loop"
    /\ IF did_addition
       THEN /\ did_addition' = FALSE
            /\ todo' = DOMAIN call_set
            /\ apc' = "pass"
            /\ ai' = ai
       ELSE /\ apc' = "select"
            /\ ai' = 1
            /\ UNCHANGED <<did_addition, todo>>
    /\ UNCHANGED <<funcs, flavor, non_recursive_funcs, call_set, inline_ables>>
    /\ UNCHANGED <<inlineVars, frameVars, extVars>>

\* Lines 58-98, one entry of call_set; the map's iteration order is not
\* specified, so any unvisited entry may come next.
VisitFunc ==
    /\ apc = "pass"
    /\ \E c \in todo :
          /\ call_set' = VisitCallSet(call_set, c)
          /\ non_recursive_funcs' = non_recursive_funcs \ VisitErased(call_set, c)
          /\ did_addition' = (did_addition \/ VisitAddls(call_set, c) # {})
          /\ todo' = todo \ {c}
          /\ apc' = IF todo = {c} THEN "loop" ELSE "pass"
    /\ UNCHANGED <<funcs, flavor, inline_ables, ai>>
    /\ UNCHANGED <<inlineVars, frameVars, extVars>>

\* Lines 101-121, one FuncInfo.
SelectFunc ==
    /\ apc = "select"
    /\ ai <= Len(funcs)
    /\ inline_ables' = IF IsCandidate(funcs[ai], flavor, non_recursive_funcs)
                       THEN inline_ables \cup {funcs[ai].func}
                       ELSE inline_ables
    /\ ai' = ai + 1
    /\ apc' = IF ai = Len(funcs) THEN "selected" ELSE "select"
    /\ UNCHANGED <<funcs, flavor, non_recursive_funcs, call_set, did_addition, todo>>
    /\ UNCHANGED <<inlineVars, frameVars, extVars>>

NextAnalyze == SeedFunc \/ LoopTest \/ VisitFunc \/ SelectFunc

SpecAnalyze == InitAnalyze /\ [][NextAnalyze]_vars

----------------------------------------------------------------------------
\* The call graph the claims speak of: the direct-call edges of a function
\* are the script calls of all of its bodies.

BodiesOf(f) == {i \in DOMAIN funcs : funcs[i].func = f}

DirectCalls(f) == UNION {funcs[i].calls : i \in BodiesOf(f)}

RECURSIVE CallClosure(_)
CallClosure(S) ==
    LET T == S \cup UNION {DirectCalls(g) : g \in S}
    IN  IF T = S THEN S ELSE CallClosure(T)

\* The functions reachable from f through one or more direct-call edges.
Reachable(f) == CallClosure(DirectCalls(f))

OnCallCycle(f) == f \in Reachable(f)

ClosureConverged == apc \in {"select", "selected"}

\* C1: after the closure loop has converged, the call set of every function
\* holds every function reachable from it through direct-call edges, the
\* edges of a function being the script calls of all of its bodies.
C1_ClosureComplete ==
    ClosureConverged => \A f \in Funcs : Reachable(f) \subseteq call_set[f]

\* C2: after Analyze has chosen the inlinable functions, no function on a
\* call cycle of any length is inlinable.
C2_NoCycleInlinable ==
    apc = "selected" => \A f \in Funcs : OnCallCycle(f) => f \notin inline_ables

\* C3: a function that has been marked recursive (it was entered in the
\* analysis and is no longer in the non-recursive set) is not put back into
\* the non-recursive set and does not enter the inlinable set by any later
\* step of the pass.
C3_MarkPermanent ==
    [][\A f \in Funcs :
          (f \in DOMAIN call_set /\ f \notin non_recursive_funcs)
             => (f \notin non_recursive_funcs' /\ f \notin inline_ables')]_vars

\* C8: a function is inlinable only if it is a plain function, is in the
\* non-recursive set, has a single body, is not flagged to be skipped and its
\* body is not precompiled.
C8_InlinableOnlyIf ==
    \A f \in inline_ables :
        /\ flavor[f] = "function"
        /\ f \in non_recursive_funcs
        /\ Cardinality(BodiesOf(f)) = 1
        /\ \A i \in BodiesOf(f) : ~funcs[i].skip /\ ~funcs[i].cpp

\* C8 witness: the selection is over, one function was chosen and another,
\* non-recursive plain function was left out for its precompiled body.
C8_Witness ==
    /\ apc = "selected"
    /\ inline_ables # {}
    /\ \E g \in non_recursive_funcs \ inline_ables :
          /\ flavor[g] = "function"
          /\ \E i \in BodiesOf(g) : funcs[i].cpp

----------------------------------------------------------------------------
\* The programs of SpecInline.
\*
\* A call site (CallExpr) carries what CheckForInlining reads of it; an
\* inline expression (InlineExpr) carries the duplicated body (sub), the
\* body it duplicates (src), the call it replaces (orig, << >> if none) and
\* its frame offset (off).

NumParams(f) == IF f = MultiFunc THEN 2 ELSE 1

\* Variables of a body's scope: the parameters and one local.
ScopeLength(f) == NumParams(f) + 1

CallShapes == {"direct", "indirect", "local", "noval", "builtin", "when", "badargs"}

MkCall(f, shape) ==
    [k      |-> "call",
     f      |-> f,
     tag    |-> IF shape = "indirect" THEN "other" ELSE "name",
     global |-> (shape # "local"),
     hasval |-> (shape # "noval"),
     script |-> (shape # "builtin"),
     inWhen |-> (shape = "when"),
     nargs  |-> IF shape = "badargs" THEN NumParams(f) + 1 ELSE NumParams(f)]

MkInline(sf, src, sub, orig, off) ==
    [k |-> "inline", f |-> sf, src |-> src, sub |-> sub, orig |-> orig, off |-> off]

\* The call resolves to a script function (what ProfileFunc records as a
\* script call, and what CheckForInlining requires at lines 304-321).
IsScriptCall(c) == c.tag = "name" /\ c.global /\ c.hasval /\ c.script

ScriptCalls(items) ==
    {items[i].f : i \in {j \in DOMAIN items : items[j].k = "call" /\ IsScriptCall(items[j])}}

SeqsUpTo(S, n) == UNION {[1..m -> S] : m \in 0..n}

\* StmtOptInfo counts of a body: a small and a large body.
BodySizes == {[num_stmts |-> 100, num_exprs |-> 200],
              [num_stmts |-> 300, num_exprs |-> 400]}

MidFunc == "B"
LeafFunc == "C"

DirectSites == {MkCall(MidFunc, "direct"), MkCall(LeafFunc, "direct")}

OddSites == {MkCall(LeafFunc, sh) : sh \in CallShapes \ {"direct"}}

MkInlineInfo(f, items, size) ==
    [func |-> f, calls |-> ScriptCalls(items), skip |-> FALSE, cpp |-> FALSE,
     fname |-> f, analyze |-> TRUE, group |-> FALSE,
     items |-> items, num_stmts |-> size.num_stmts, num_exprs |-> size.num_exprs]

\* The event MultiFunc with its handler bodies (the first with up to MaxSites
\* call sites, the others with at most one), the function MidFunc, and the
\* leaf function LeafFunc.
MkInlineFuncs(firstSites, otherSites, sizeA, sitesB, sizeB, sizeC) ==
    << MkInlineInfo(MultiFunc, firstSites, sizeA) >>
    \o [i \in 1..Len(otherSites) |-> MkInlineInfo(MultiFunc, otherSites[i], sizeA)]
    \o << MkInlineInfo(MidFunc, sitesB, sizeB), MkInlineInfo(LeafFunc, << >>, sizeC) >>

InlineFlavor == [f \in Funcs |-> IF f = MultiFunc THEN "event" ELSE "function"]

\* Analyze up to line 121 run to completion on the FuncInfo entries fs, the
\* closure loop visiting the functions in the order of FuncOrder.
RECURSIVE SeedAll(_, _, _)
SeedAll(fs, i, acc) ==
    IF i > Len(fs) THEN acc
    ELSE SeedAll(fs, i + 1, [nr |-> SeedNonRecursive(acc.nr, fs[i]),
                             cs |-> SeedCallSet(acc.cs, fs[i])])

RECURSIVE PassAll(_, _)
PassAll(i, acc) ==
    IF i > Len(FuncOrder) THEN acc
    ELSE LET c == FuncOrder[i]
         IN  PassAll(i + 1, [nr |-> acc.nr \ VisitErased(acc.cs, c),
                             cs |-> VisitCallSet(acc.cs, c),
                             added |-> (acc.added \/ VisitAddls(acc.cs, c) # {})])

RECURSIVE ClosureAll(_)
ClosureAll(acc) ==
    LET nxt == PassAll(1, [nr |-> acc.nr, cs |-> acc.cs, added |-> FALSE])
    IN  IF nxt.added THEN ClosureAll(nxt) ELSE nxt

Analyzed(fs) == ClosureAll(SeedAll(fs, 1, [nr |-> {}, cs |-> << >>]))

SelectAll(fs, flv, nr) ==
    {fs[i].func : i \in {j \in DOMAIN fs : IsCandidate(fs[j], flv, nr)}}

\* The scope of FuncInfo i, and the scope CollapseEventHandlers builds.
BodyScope(fs, i) == [id |-> i, length |-> ScopeLength(fs[i].func), group |-> fs[i].group]

MergedScope(fs, f) == [id |-> Len(fs) + 1, length |-> NumParams(f), group |-> FALSE]

\* The identity of the merged body and of its profile.
MergedId(fs) == Len(fs) + 1

\* The state when Analyze calls CollapseEventHandlers (line 123) for the
\* FuncInfo entries fs of functions with the flavors flv.
InlineStart(fs, flv) ==
    /\ funcs = fs
    /\ flavor = flv
    /\ non_recursive_funcs = Analyzed(funcs).nr
    /\ call_set = Analyzed(funcs).cs
    /\ inline_ables = SelectAll(funcs, flavor, non_recursive_funcs)
    /\ did_addition = FALSE
    /\ todo = {}
    /\ apc = "collapse_scan"
    /\ ai = 1
    /\ finfo = [i \in DOMAIN funcs |->
                  [body |-> i, analyze |-> funcs[i].analyze,
                   scope |-> BodyScope(funcs, i), profile |-> i]]
    /\ stmts = [i \in DOMAIN funcs |->
                  [items |-> funcs[i].items, num_stmts |-> funcs[i].num_stmts,
                   num_exprs |-> funcs[i].num_exprs]]
    /\ func_bodies = [f \in Funcs |->
                        LET own == {i \in DOMAIN funcs : funcs[i].func = f}
                        IN  [k \in 1..Cardinality(own) |->
                               CHOOSE i \in own : Cardinality({j \in own : j < i}) = k - 1]]
    /\ func_scope = [f \in Funcs |->
                        BodyScope(funcs, CHOOSE i \in DOMAIN funcs :
                                            /\ funcs[i].func = f
                                            /\ \A j \in DOMAIN funcs :
                                                  funcs[j].func = f => j <= i)]
    /\ func_frame_size = [f \in Funcs |-> ScopeLength(f)]
    /\ num_stmts = 0 /\ num_exprs = 0
    /\ curr_frame_size = 0 /\ max_inlined_frame_size = 0
    /\ skipped_inlining = {} /\ did_inline = {}
    /\ stack = << >> /\ merge_todo = {}
    /\ ret_call = << >> /\ ret = << >>
    /\ subst_total = 0 /\ win_total = 0 /\ min_refused = 0
    /\ refused = FALSE
    /\ merge_result = [f \in Funcs |-> "none"]
    /\ FrameIdle
    /\ ExtIdle

InitInline ==
    \E nb \in 1..MaxBodies :
    \E firstSites \in SeqsUpTo(DirectSites, MaxSites) :
    \E otherSites \in [1..(nb - 1) -> SeqsUpTo(DirectSites, 1)] :
    \E sitesB \in SeqsUpTo(DirectSites, MaxSites) \cup {<<c>> : c \in OddSites} :
    \E sizeA \in BodySizes, sizeB \in BodySizes, sizeC \in BodySizes :
       InlineStart(MkInlineFuncs(firstSites, otherSites, sizeA, sitesB, sizeB, sizeC),
                   InlineFlavor)

----------------------------------------------------------------------------
\* The call stack of the inliner.  A frame is one of
\*   [mode |-> "func"]  : InlineFunction rewriting the body of a FuncInfo in place;
\*   [mode |-> "inl"]   : DoInline rewriting the duplicate of a body;
\*   [mode |-> "merge"] : CollapseEventHandlers(func, bodies, body_to_info).

Top == stack[Len(stack)]

Pop == SubSeq(stack, 1, Len(stack) - 1)

FrameItems(fr) == IF fr.mode = "func" THEN stmts[fr.body].items ELSE fr.items

Traversing ==
    /\ stack # << >>
    /\ Top.mode \in {"func", "inl"}
    /\ Top.idx <= Len(FrameItems(Top))

CurItem == FrameItems(Top)[Top.idx]

\* The traversal of a body (Stmt::Inline, Expr::Inline) moves to the next
\* expression, leaving the current one as it is.
Advance(st) == [st EXCEPT ![Len(st)].idx = @ + 1]

\* The traversal puts e in the place of the current expression of frame fr,
\* in the body itself for InlineFunction and in the duplicate for DoInline.
PlaceStmts(st, fr, e) ==
    IF fr.mode = "func" THEN [st EXCEPT ![fr.body].items[fr.idx] = e] ELSE st

PlaceFrame(fr, e) ==
    IF fr.mode = "func" THEN [fr EXCEPT !.idx = @ + 1]
    ELSE [fr EXCEPT !.items[fr.idx] = e, !.idx = @ + 1]

Size(oi) == oi.num_stmts + oi.num_exprs

Max(a, b) == IF a > b THEN a ELSE b

----------------------------------------------------------------------------
\* Inliner::PreInline, lines 284-289.
PreInline(oi, frame_size) ==
    /\ max_inlined_frame_size' = 0
    /\ curr_frame_size' = frame_size
    /\ num_stmts' = oi.num_stmts
    /\ num_exprs' = oi.num_exprs

\* Inliner::PostInline, lines 295-298: the frame sizes after it, for function f.
PostInlineFrameSize(f) ==
    LET new_frame_size == curr_frame_size + max_inlined_frame_size
    IN  IF new_frame_size > func_frame_size[f]
        THEN [func_frame_size EXCEPT ![f] = new_frame_size]
        ELSE func_frame_size

\* Inliner::PostInline, lines 292-293: the counts written to the body's info.
PostInlineCounts(items) ==
    [items |-> items, num_stmts |-> num_stmts, num_exprs |-> num_exprs]

\* The size test that counts statements only.
TooLargeStmtsOnly(oi) == num_stmts + oi.num_stmts > MAX_INLINE_SIZE

\* Inliner::DoInline, line 362.
TooLarge(oi) ==
    num_stmts + oi.num_stmts + num_exprs + oi.num_exprs > MAX_INLINE_SIZE

\* Inliner::DoInline, lines 367-406, for the body b of function sf, reached
\* from the call expression call (<< >> when CollapseEventHandlers calls it):
\* the counts are added, the frame sizes held, the duplicate is entered.
DoInlineFrame(sf, b, call) ==
    [mode |-> "inl", sf |-> sf, src |-> b, call |-> call,
     items |-> stmts[b].items, idx |-> 1,
     num_stmts |-> stmts[b].num_stmts, num_exprs |-> stmts[b].num_exprs,
     frame_size |-> func_frame_size[sf],
     hold_curr_frame_size |-> curr_frame_size,
     hold_max_inlined_frame_size |-> max_inlined_frame_size]

DoInlineEnter(sf, b, call) ==
    /\ num_stmts' = num_stmts + stmts[b].num_stmts
    /\ num_exprs' = num_exprs + stmts[b].num_exprs
    /\ curr_frame_size' = func_frame_size[sf]
    /\ max_inlined_frame_size' = 0
    /\ stack' = Append(stack, DoInlineFrame(sf, b, call))
    /\ subst_total' = subst_total + Size(stmts[b])
    /\ win_total' = win_total + Size(stmts[b])

\* Inliner::DoInline, lines 362-365: the substitution is refused.
DoInlineRefuse(sf, b) ==
    /\ skipped_inlining' = skipped_inlining \cup {sf}
    /\ refused' = TRUE
    /\ min_refused' = IF min_refused = 0 \/ Size(stmts[b]) < min_refused
                      THEN Size(stmts[b]) ELSE min_refused

\* The counts on return from DoInline, were they held and restored like the
\* frame sizes.
LeaveCountsRestored(fr) ==
    [num_stmts |-> num_stmts - fr.num_stmts, num_exprs |-> num_exprs - fr.num_exprs]

\* Inliner::DoInline, lines 406-414: the counts stay as accumulated ...
LeaveCounts(fr) == [num_stmts |-> num_stmts, num_exprs |-> num_exprs]

\* The combination in which the frames of sibling substitutions add up.
LeaveMaxInlinedSum(fr) ==
    fr.hold_max_inlined_frame_size + fr.frame_size + max_inlined_frame_size

\* ... and the frame sizes are restored and combined.
LeaveMaxInlined(fr) ==
    LET new_frame_size == fr.frame_size + max_inlined_frame_size
    IN  IF new_frame_size > fr.hold_max_inlined_frame_size
        THEN new_frame_size
        ELSE fr.hold_max_inlined_frame_size

DoInlineLeave(fr) ==
    /\ curr_frame_size' = fr.hold_curr_frame_size
    /\ max_inlined_frame_size' = LeaveMaxInlined(fr)
    /\ num_stmts' = LeaveCounts(fr).num_stmts
    /\ num_exprs' = LeaveCounts(fr).num_exprs

\* Inliner::DoInline, lines 420-423: the InlineExpr of the finished frame fr.
DoInlineResult(fr) ==
    MkInline(fr.sf, fr.src, fr.items, << >>, fr.hold_curr_frame_size)

----------------------------------------------------------------------------
\* Inliner::CheckForInlining.

\* Lines 302-327: the call names a global with a script function for value,
\* and that function is in inline_ables.
ResolvesToInlinable(c) == IsScriptCall(c) /\ c.f \in inline_ables

\* Lines 329-343: calls in a "when", and calls that use the single-"any"
\* argument loophole, are not inlined.
SkipsInlining(c) == c.inWhen \/ (NumParams(c.f) = 1 /\ c.nargs # 1)

\* Line 346: the callee's only body.
CalleeBody(c) == func_bodies[c.f][1]

\* The result without the record of the original call.
CheckResultNoOriginal(fr) == DoInlineResult(fr)

\* Lines 350-355: the inline expression, with the call as its original.
CheckResult(fr) == [DoInlineResult(fr) EXCEPT !.orig = fr.call]

InPass == apc \in {"collapse", "inline"}

\* Lines 304-327: return c.
CheckReturnsCall ==
    /\ InPass /\ Traversing /\ CurItem.k = "call"
    /\ ~ResolvesToInlinable(CurItem)
    /\ ret_call' = <<CurItem>>
    /\ ret' = <<CurItem>>
    /\ stack' = Advance(stack)
    /\ UNCHANGED <<analyzeVars, objectVars, inlinerVars, merge_todo, historyVars>>
    /\ UNCHANGED <<frameVars, extVars>>

\* Lines 329-343: note the function as skipped, return c.
CheckSkips ==
    /\ InPass /\ Traversing /\ CurItem.k = "call"
    /\ ResolvesToInlinable(CurItem)
    /\ SkipsInlining(CurItem)
    /\ skipped_inlining' = skipped_inlining \cup {CurItem.f}
    /\ ret_call' = <<CurItem>>
    /\ ret' = <<CurItem>>
    /\ stack' = Advance(stack)
    /\ UNCHANGED <<analyzeVars, objectVars, merge_todo, historyVars>>
    /\ UNCHANGED <<num_stmts, num_exprs, curr_frame_size, max_inlined_frame_size, did_inline>>
    /\ UNCHANGED <<frameVars, extVars>>

\* Lines 346-355 with DoInline refusing (lines 362-365): ie is null and is
\* returned; the traversal leaves the call where it is.
CheckRefused ==
    /\ InPass /\ Traversing /\ CurItem.k = "call"
    /\ ResolvesToInlinable(CurItem)
    /\ ~SkipsInlining(CurItem)
    /\ TooLarge(stmts[CalleeBody(CurItem)])
    /\ DoInlineRefuse(CurItem.f, CalleeBody(CurItem))
    /\ ret_call' = <<CurItem>>
    /\ ret' = << >>
    /\ stack' = Advance(stack)
    /\ UNCHANGED <<analyzeVars, objectVars, merge_todo>>
    /\ UNCHANGED <<num_stmts, num_exprs, curr_frame_size, max_inlined_frame_size, did_inline>>
    /\ UNCHANGED <<subst_total, win_total, merge_result>>
    /\ UNCHANGED <<frameVars, extVars>>

\* Lines 346-348 with DoInline accepting (lines 367-406): the duplicate of
\* the callee's body is entered.
CheckEnter ==
    /\ InPass /\ Traversing /\ CurItem.k = "call"
    /\ ResolvesToInlinable(CurItem)
    /\ ~SkipsInlining(CurItem)
    /\ ~TooLarge(stmts[CalleeBody(CurItem)])
    /\ DoInlineEnter(CurItem.f, CalleeBody(CurItem), <<CurItem>>)
    /\ UNCHANGED <<analyzeVars, objectVars, merge_todo, ret_call, ret>>
    /\ UNCHANGED <<skipped_inlining, did_inline, min_refused, refused, merge_result>>
    /\ UNCHANGED <<frameVars, extVars>>

\* DoInline lines 406-423 and CheckForInlining lines 350-355: the duplicate
\* has been traversed, the inline expression is returned and takes the place
\* of the call.
CheckDone ==
    /\ InPass /\ stack # << >>
    /\ Top.mode = "inl" /\ Top.idx > Len(Top.items) /\ Top.call # << >>
    /\ LET fr == Top
           parent == stack[Len(stack) - 1]
           ie == CheckResult(fr)
       IN  /\ DoInlineLeave(fr)
           /\ did_inline' = did_inline \cup {fr.sf}
           /\ ret_call' = fr.call
           /\ ret' = <<ie>>
           /\ stmts' = PlaceStmts(stmts, parent, ie)
           /\ stack' = Append(SubSeq(stack, 1, Len(stack) - 2), PlaceFrame(parent, ie))
    /\ UNCHANGED <<analyzeVars, finfo, func_bodies, func_scope, func_frame_size>>
    /\ UNCHANGED <<skipped_inlining, merge_todo, historyVars>>
    /\ UNCHANGED <<frameVars, extVars>>

\* The traversal passes an expression that is inlined already.
TraverseInlined ==
    /\ InPass /\ Traversing /\ CurItem.k = "inline"
    /\ stack' = Advance(stack)
    /\ UNCHANGED <<analyzeVars, objectVars, inlinerVars, merge_todo, ret_call, ret, historyVars>>
    /\ UNCHANGED <<frameVars, extVars>>

----------------------------------------------------------------------------
\* Inliner::InlineFunction, called by Analyze lines 125-127.

NextFuncInfo == IF ai = Len(funcs) THEN "done" ELSE "inline"

\* Lines 278-280: PreInline, then the traversal of the body starts.
InlineFunctionBegin ==
    /\ apc = "inline" /\ stack = << >> /\ ai <= Len(funcs)
    /\ finfo[ai].analyze
    /\ PreInline(stmts[finfo[ai].body], finfo[ai].scope.length)
    /\ stack' = << [mode |-> "func", fi |-> ai, body |-> finfo[ai].body, idx |-> 1] >>
    /\ win_total' = 0
    /\ min_refused' = 0
    /\ UNCHANGED <<analyzeVars, objectVars, skipped_inlining, did_inline>>
    /\ UNCHANGED <<merge_todo, ret_call, ret, subst_total, refused, merge_result>>
    /\ UNCHANGED <<frameVars, extVars>>

\* Line 126: a FuncInfo that is not to be analysed is passed over.
InlineFunctionSkip ==
    /\ apc = "inline" /\ stack = << >> /\ ai <= Len(funcs)
    /\ ~finfo[ai].analyze
    /\ ai' = ai + 1
    /\ apc' = NextFuncInfo
    /\ UNCHANGED <<funcs, flavor, non_recursive_funcs, call_set, inline_ables, did_addition, todo>>
    /\ UNCHANGED <<inlineVars, frameVars, extVars>>

\* Line 281: PostInline.
InlineFunctionEnd ==
    /\ apc = "inline" /\ Len(stack) = 1
    /\ Top.mode = "func" /\ Top.idx > Len(FrameItems(Top))
    /\ stmts' = [stmts EXCEPT ![Top.body] = PostInlineCounts(@.items)]
    /\ func_frame_size' = PostInlineFrameSize(funcs[Top.fi].func)
    /\ stack' = << >>
    /\ ai' = ai + 1
    /\ apc' = NextFuncInfo
    /\ UNCHANGED <<funcs, flavor, non_recursive_funcs, call_set, inline_ables, did_addition, todo>>
    /\ UNCHANGED <<finfo, func_bodies, func_scope, inlinerVars>>
    /\ UNCHANGED <<merge_todo, ret_call, ret, historyVars>>
    /\ UNCHANGED <<frameVars, extVars>>

----------------------------------------------------------------------------
\* Inliner::CollapseEventHandlers().

NoBody == 0

\* The count of lines 134-166 without the test for a group attribute.
CountsAsHandlerNoGroupTest(i) ==
    /\ finfo[i].analyze
    /\ flavor[funcs[i].func] = "event"
    /\ funcs[i].fname # "zeek_init"
    /\ Len(func_bodies[funcs[i].func]) > 1

\* Lines 134-166: the FuncInfo i is counted as a handler of its event.
CountsAsHandler(i) ==
    /\ finfo[i].analyze
    /\ flavor[funcs[i].func] = "event"
    /\ ~finfo[i].scope.group
    /\ funcs[i].fname # "zeek_init"
    /\ Len(func_bodies[funcs[i].func]) > 1

\* Lines 167-170: event_handlers.
EventHandlerCount(f) ==
    Cardinality({i \in DOMAIN funcs : funcs[i].func = f /\ CountsAsHandler(i)})

\* Lines 133-189: the events whose bodies are all counted.
CollapseScan ==
    /\ apc = "collapse_scan"
    /\ merge_todo' = {f \in Funcs : /\ EventHandlerCount(f) > 0
                                    /\ Len(func_bodies[f]) = EventHandlerCount(f)}
    /\ apc' = "collapse"
    /\ UNCHANGED <<funcs, flavor, non_recursive_funcs, call_set, inline_ables,
                   did_addition, todo, ai>>
    /\ UNCHANGED <<objectVars, inlinerVars, stack, ret_call, ret, historyVars>>
    /\ UNCHANGED <<frameVars, extVars>>

\* body_to_info: the FuncInfo that holds body b.
InfoOfBody(b) == CHOOSE i \in DOMAIN finfo : finfo[i].body = b

\* ScriptFunc::ReplaceBodies: body b becomes the only body of function f.
ReplaceBodies(f, b) == [func_bodies EXCEPT ![f] = <<b>>]

\* Line 250.
MergeAppend(merged, ie) == Append(merged, ie)

\* The records when every body's info is given the merged body.
DeactivatedFinfoAllMerged(fr) ==
    LET bodies == func_bodies[fr.func]
    IN  [i \in DOMAIN finfo |->
            IF finfo[i].body \in Range(bodies)
            THEN [finfo[i] EXCEPT !.body = MergedId(funcs)]
            ELSE finfo[i]]

\* Lines 256-271: the analysis records after a successful merge.
DeactivatedFinfo(fr) ==
    LET bodies == func_bodies[fr.func]
        b0 == bodies[1]
    IN  [i \in DOMAIN finfo |->
            IF finfo[i].body = b0
            THEN [finfo[i] EXCEPT !.scope = fr.new_scope,
                                  !.profile = MergedId(funcs),
                                  !.body = MergedId(funcs)]
            ELSE IF finfo[i].body \in Range(bodies)
            THEN [finfo[i] EXCEPT !.analyze = FALSE, !.body = NoBody]
            ELSE finfo[i]]

\* The records, were the success flag not tested.
MergedFinfoUntested(fr, success) == DeactivatedFinfo(fr)

\* Lines 253-274, if ( success ): the analysis records, the function's
\* bodies, the stored bodies and the frame sizes at the end of the merge.
MergedFinfo(fr, success) == IF success THEN DeactivatedFinfo(fr) ELSE finfo

MergedFuncBodies(fr, success) ==
    IF success THEN ReplaceBodies(fr.func, MergedId(funcs)) ELSE func_bodies

MergedStmts(fr, success) ==
    IF success THEN MapPut(stmts, MergedId(funcs), PostInlineCounts(fr.merged)) ELSE stmts

MergedFrameSize(fr, success) ==
    IF success THEN PostInlineFrameSize(fr.func) ELSE func_frame_size

\* Lines 196-236 for one entry of event_handlers: PreInline for the merged
\* body, the new scope, which is set as the function's scope.
MergeBegin ==
    /\ apc = "collapse" /\ stack = << >>
    /\ \E e \in merge_todo :
          /\ PreInline([num_stmts |-> 0, num_exprs |-> 0], NumParams(e))
          /\ func_scope' = [func_scope EXCEPT ![e] = MergedScope(funcs, e)]
          /\ stack' = << [mode |-> "merge", func |-> e, merged |-> << >>, bidx |-> 1,
                          new_scope |-> MergedScope(funcs, e)] >>
          /\ merge_todo' = merge_todo \ {e}
    /\ win_total' = 0
    /\ min_refused' = 0
    /\ UNCHANGED <<analyzeVars, finfo, stmts, func_bodies, func_frame_size>>
    /\ UNCHANGED <<skipped_inlining, did_inline, ret_call, ret, subst_total, refused, merge_result>>
    /\ UNCHANGED <<frameVars, extVars>>

MergeAtBody ==
    /\ apc = "collapse" /\ stack # << >>
    /\ Top.mode = "merge"
    /\ Top.bidx <= Len(func_bodies[Top.func])

MergeBody == func_bodies[Top.func][Top.bidx]

\* Lines 238-243 with DoInline accepting: the duplicate of the body is entered.
MergeBodyEnter ==
    /\ MergeAtBody
    /\ ~TooLarge(stmts[MergeBody])
    /\ DoInlineEnter(Top.func, MergeBody, << >>)
    /\ UNCHANGED <<analyzeVars, objectVars, merge_todo, ret_call, ret>>
    /\ UNCHANGED <<skipped_inlining, did_inline, min_refused, refused, merge_result>>
    /\ UNCHANGED <<frameVars, extVars>>

\* DoInline lines 406-423 and line 250: the inline expression of the body
\* is appended to the merged body.
MergeBodyDone ==
    /\ apc = "collapse" /\ stack # << >>
    /\ Top.mode = "inl" /\ Top.idx > Len(Top.items) /\ Top.call = << >>
    /\ LET fr == Top
           parent == stack[Len(stack) - 1]
       IN  /\ DoInlineLeave(fr)
           /\ stack' = Append(SubSeq(stack, 1, Len(stack) - 2),
                              [parent EXCEPT !.merged = MergeAppend(@, DoInlineResult(fr)),
                                             !.bidx = @ + 1])
    /\ UNCHANGED <<analyzeVars, objectVars, skipped_inlining, did_inline>>
    /\ UNCHANGED <<merge_todo, ret_call, ret, historyVars>>
    /\ UNCHANGED <<frameVars, extVars>>

\* Lines 243-248 with DoInline refusing, then lines 253-275 with success
\* false: the merge is given up.
MergeBodyAbort ==
    /\ MergeAtBody
    /\ TooLarge(stmts[MergeBody])
    /\ DoInlineRefuse(Top.func, MergeBody)
    /\ finfo' = MergedFinfo(Top, FALSE)
    /\ func_bodies' = MergedFuncBodies(Top, FALSE)
    /\ stmts' = MergedStmts(Top, FALSE)
    /\ func_frame_size' = MergedFrameSize(Top, FALSE)
    /\ merge_result' = [merge_result EXCEPT ![Top.func] = "aborted"]
    /\ stack' = Pop
    /\ UNCHANGED <<analyzeVars, func_scope, merge_todo, ret_call, ret>>
    /\ UNCHANGED <<num_stmts, num_exprs, curr_frame_size, max_inlined_frame_size, did_inline>>
    /\ UNCHANGED <<subst_total, win_total>>
    /\ UNCHANGED <<frameVars, extVars>>

\* Lines 253-274 with success true, after the loop over the bodies.
MergeEnd ==
    /\ apc = "collapse" /\ stack # << >>
    /\ Top.mode = "merge"
    /\ Top.bidx > Len(func_bodies[Top.func])
    /\ finfo' = MergedFinfo(Top, TRUE)
    /\ func_bodies' = MergedFuncBodies(Top, TRUE)
    /\ stmts' = MergedStmts(Top, TRUE)
    /\ func_frame_size' = MergedFrameSize(Top, TRUE)
    /\ merge_result' = [merge_result EXCEPT ![Top.func] = "merged"]
    /\ stack' = Pop
    /\ UNCHANGED <<analyzeVars, func_scope, inlinerVars, merge_todo, ret_call, ret>>
    /\ UNCHANGED <<subst_total, win_total, min_refused, refused>>
    /\ UNCHANGED <<frameVars, extVars>>

\* Line 123 returns: Analyze goes on to the loop of lines 125-127.
CollapseDone ==
    /\ apc = "collapse" /\ stack = << >> /\ merge_todo = {}
    /\ apc' = "inline"
    /\ ai' = 1
    /\ UNCHANGED <<funcs, flavor, non_recursive_funcs, call_set, inline_ables, did_addition, todo>>
    /\ UNCHANGED <<inlineVars, frameVars, extVars>>

NextInline ==
    \/ CollapseScan \/ MergeBegin \/ MergeBodyEnter \/ MergeBodyDone
    \/ MergeBodyAbort \/ MergeEnd \/ CollapseDone
    \/ InlineFunctionBegin \/ InlineFunctionSkip \/ InlineFunctionEnd
    \/ CheckReturnsCall \/ CheckSkips \/ CheckRefused \/ CheckEnter \/ CheckDone
    \/ TraverseInlined

SpecInline == InitInline /\ [][NextInline]_vars

----------------------------------------------------------------------------
\* Properties of the inlining pass (SpecInline).

\* The bodies function f had when the pass began, in the order of its body list.
OriginalBodies(f) ==
    [k \in 1..Cardinality(BodiesOf(f)) |->
        CHOOSE i \in BodiesOf(f) : Cardinality({j \in BodiesOf(f) : j < i}) = k - 1]

\* The stored body b as it was when the pass began.
OriginalStmts(b) ==
    [items |-> funcs[b].items, num_stmts |-> funcs[b].num_stmts,
     num_exprs |-> funcs[b].num_exprs]

\* A statement list with every inline expression put back to its original call.
Uninlined(items) ==
    [i \in DOMAIN items |-> IF items[i].k = "inline" THEN items[i].orig[1] ELSE items[i]]

\* Every inline expression held in a stored body stays where it is.
SubstitutionsKept ==
    \A b \in DOMAIN stmts :
        \A i \in DOMAIN stmts[b].items :
            stmts[b].items[i].k = "inline" =>
                /\ b \in DOMAIN stmts'
                /\ i \in DOMAIN stmts'[b].items
                /\ stmts'[b].items[i] = stmts[b].items[i]

C6_AbortLeavesBodies ==
    \A e \in Funcs :
        merge_result[e] = "aborted" =>
            /\ func_bodies[e] = OriginalBodies(e)
            /\ \A i \in BodiesOf(e) :
                  /\ finfo[i].body = i
                  /\ finfo[i].analyze = funcs[i].analyze
                  /\ apc = "collapse" => stmts[i] = OriginalStmts(i)

\* C6 witness: the merge was given up after a body had been inlined into the
\* merged list.
C6_Witness ==
    /\ apc = "collapse"
    /\ merge_result[MultiFunc] = "aborted"
    /\ win_total > 0

\* C7 (as stated): CheckForInlining(c) returns c or an inline expression
\* whose original is c.
C7_ReturnsCallOrInline ==
    ret_call # << >> =>
        \/ ret = ret_call
        \/ ret # << >> /\ ret[1].k = "inline" /\ ret[1].orig = ret_call

\* C7 (amended): CheckForInlining(c) returns c, or an inline expression
\* whose original is c (the callee then being in did_inline), or, exactly
\* when DoInline refuses the callee for its size, no expression at all (the
\* callee then being in skipped_inlining).
C7_ReturnsCallInlineOrNone ==
    ret_call # << >> =>
        LET c == ret_call[1]
        IN  \/ ret = ret_call
            \/ /\ ret # << >>
               /\ ret[1].k = "inline" /\ ret[1].orig = ret_call
               /\ ret[1].f = c.f
               /\ c.f \in did_inline
            \/ /\ ret = << >>
               /\ ResolvesToInlinable(c) /\ ~SkipsInlining(c)
               /\ c.f \in skipped_inlining

\* C7 witness: CheckForInlining has returned no expression for a call.
C7_Witness ==
    /\ ret_call # << >>
    /\ ret = << >>
    /\ refused

\* C9: after a successful merge the function has one body, the merged list,
\* which holds one inline expression per original body, in the order of the
\* body list, each a copy of its body; the first body's record holds the
\* merged body and every other record is not to be analysed and has no body.
C9_MergedBody ==
    \A e \in Funcs :
        merge_result[e] = "merged" =>
            LET orig == OriginalBodies(e)
                merged == stmts[MergedId(funcs)].items
            IN  /\ func_bodies[e] = << MergedId(funcs) >>
                /\ Len(merged) = Len(orig)
                /\ \A k \in DOMAIN orig :
                      /\ merged[k].k = "inline"
                      /\ merged[k].f = e
                      /\ merged[k].src = orig[k]
                      /\ Uninlined(merged[k].sub) = funcs[orig[k]].items
                /\ finfo[orig[1]].body = MergedId(funcs)
                /\ finfo[orig[1]].analyze
                /\ \A k \in DOMAIN orig \ {1} :
                      /\ ~finfo[orig[k]].analyze
                      /\ finfo[orig[k]].body = NoBody

\* C9 witness: a merge of several bodies succeeded, and a call inside one of
\* the copies was itself substituted.
C9_Witness ==
    /\ merge_result[MultiFunc] = "merged"
    /\ Len(OriginalBodies(MultiFunc)) > 1
    /\ \E k \in DOMAIN stmts[MergedId(funcs)].items :
          \E j \in DOMAIN stmts[MergedId(funcs)].items[k].sub :
              stmts[MergedId(funcs)].items[k].sub[j].k = "inline"

----------------------------------------------------------------------------
\* ZBody: construction and DoExec (script_opt/ZAM/ZBody.cc).

Slots == 1..FrameSize

\* What a slot (ZVal) holds: a null managed pointer, the managed value
\* number id, whatever "new ZVal[]" left there, or a scalar.
EmptyVal == [k |-> "empty"]

ManagedVal(id) == [k |-> "managed", id |-> id]

UninitVal == [k |-> "uninit"]

ScalarVal == [k |-> "scalar"]

\* The instructions of the model: OP_NOP, an assignment of a newly made
\* value to a slot, and an instruction that raises a run-time error.
InstSet ==
    {[op |-> "nop"], [op |-> "error"]} \cup {[op |-> "assign", slot |-> s] : s \in Slots}

\* Lines 194-197 and 311-314: new ZVal[frame_size] with the managed slots cleared.
NewFrame(ms) == [s \in Slots |-> IF s \in ms THEN EmptyVal ELSE UninitVal]

\* Lines 308-311: the frame DoExec works on.
CurFrame == IF fixed_frame # NoFrame THEN fixed_frame ELSE frame

\* Unref / ZVal::DeleteManagedType of the slot value v: a release of the
\* value it points to, nothing for a null pointer.
DeleteManagedType(rel, v) ==
    IF v.k = "managed" THEN [rel EXCEPT ![v.id] = @ + 1] ELSE rel

\* Lines 371-375 and 381-384: DeleteManagedType for every managed slot of fr.
DeleteManagedSlots(rel, fr) ==
    [id \in DOMAIN rel |->
        rel[id] + Cardinality({s \in managed_slots : fr[s] = ManagedVal(id)})]

\* The frame at exit when the slots are released and not cleared.
ReleasedFrame(fr) == fr

\* Lines 371-375: ClearManagedVal for every managed slot of fr.
ClearedFrame(fr) == [s \in Slots |-> IF s \in managed_slots THEN EmptyVal ELSE fr[s]]

\* An assignment to slot s of the newly made value id: a managed slot gets
\* the value (as vec_exec lines 529-531 do for v1), another slot a scalar.
AssignedFrame(fr, s, id) ==
    [fr EXCEPT ![s] = IF s \in managed_slots THEN ManagedVal(id) ELSE ScalarVal]

\* The frame fr written where DoExec's frame pointer points.
SetFrame(fr) ==
    IF fixed_frame # NoFrame
    THEN fixed_frame' = fr /\ frame' = frame
    ELSE frame' = fr /\ fixed_frame' = fixed_frame

\* No analysis is at hand.
AnalyzeIdle ==
    /\ funcs = << >>
    /\ flavor = [f \in Funcs |-> "function"]
    /\ non_recursive_funcs = {} /\ call_set = << >> /\ inline_ables = {}
    /\ did_addition = FALSE /\ todo = {}
    /\ apc = "idle" /\ ai = 1

\* ZBody::ZBody, lines 172-198, for a compiler's frame layout and
\* instructions (SetInsts); the error flag is global and may be set.
FrameStart(ops) ==
    /\ non_recursive \in BOOLEAN
    /\ managed_slots \in SUBSET Slots
    /\ insts \in SeqsUpTo(ops, MaxInsts)
    /\ fixed_frame = IF non_recursive THEN NewFrame(managed_slots) ELSE NoFrame
    /\ frame = NoFrame
    /\ pc = 0
    /\ ZAM_error \in BOOLEAN
    /\ epc = "idle"
    /\ invocations = 0
    /\ released = << >>
    /\ AnalyzeIdle
    /\ InlineIdle
    /\ ExtIdle

InitFrame == FrameStart(InstSet)

\* DoExec, lines 280-326.
DoExecBegin ==
    /\ epc = "idle"
    /\ invocations < MaxInvocations
    /\ pc' = 0
    /\ frame' = IF fixed_frame # NoFrame THEN NoFrame ELSE NewFrame(managed_slots)
    /\ ZAM_error' = FALSE
    /\ epc' = "running"
    /\ UNCHANGED <<non_recursive, managed_slots, insts, fixed_frame, invocations, released>>
    /\ UNCHANGED <<analyzeVars, inlineVars, extVars>>

\* Line 328: the test of the dispatch loop.
Dispatching == epc = "running" /\ pc < Len(insts) /\ ~ZAM_error

\* Line 329.
CurInst == insts[pc + 1]

\* Lines 342-343 and 357: OP_NOP.
ExecNop ==
    /\ Dispatching
    /\ CurInst.op = "nop"
    /\ pc' = pc + 1
    /\ UNCHANGED <<non_recursive, managed_slots, insts, fixed_frame, frame,
                   ZAM_error, epc, invocations, released>>
    /\ UNCHANGED <<analyzeVars, inlineVars, extVars>>

\* An instruction that assigns to a slot: the value the slot held is
\* released after the new one is in place (vec_exec, lines 529-532).
ExecAssign ==
    /\ Dispatching
    /\ CurInst.op = "assign"
    /\ LET id == Len(released) + 1
           old == CurFrame[CurInst.slot]
       IN  /\ SetFrame(AssignedFrame(CurFrame, CurInst.slot, id))
           /\ released' = IF CurInst.slot \in managed_slots
                          THEN DeleteManagedType(Append(released, 0), old)
                          ELSE released
    /\ pc' = pc + 1
    /\ UNCHANGED <<non_recursive, managed_slots, insts, ZAM_error, epc, invocations>>
    /\ UNCHANGED <<analyzeVars, inlineVars, extVars>>

\* An instruction that reports a run-time error (ZAM_run_time_error, line
\* 152): the flag is set, and the loop ends at its next test.
ExecError ==
    /\ Dispatching
    /\ CurInst.op = "error"
    /\ ZAM_error' = TRUE
    /\ pc' = pc + 1
    /\ UNCHANGED <<non_recursive, managed_slots, insts, fixed_frame, frame,
                   epc, invocations, released>>
    /\ UNCHANGED <<analyzeVars, inlineVars, extVars>>

\* Lines 362-389: the loop is over; the managed slots are released, a fixed
\* frame has them cleared, another frame is deleted.
DoExecEnd ==
    /\ epc = "running"
    /\ ~(pc < Len(insts) /\ ~ZAM_error)
    /\ released' = DeleteManagedSlots(released, CurFrame)
    /\ IF fixed_frame # NoFrame
       THEN fixed_frame' = ClearedFrame(fixed_frame) /\ frame' = frame
       ELSE frame' = NoFrame /\ fixed_frame' = fixed_frame
    /\ epc' = "idle"
    /\ invocations' = invocations + 1
    /\ UNCHANGED <<non_recursive, managed_slots, insts, pc, ZAM_error>>
    /\ UNCHANGED <<analyzeVars, inlineVars, extVars>>

\* A call inside a "when" (line 80): it returns, or it delays, and then the
\* ZAMDelayedCallException it throws leaves DoExec, which has no handler
\* for it: the statements after the loop are not reached, and the local
\* pointer to a frame made by new is lost with the frame allocated.
WhenCallInst == [op |-> "when_call"]

ExecWhenCall ==
    /\ Dispatching
    /\ CurInst = WhenCallInst
    /\ \/ /\ pc' = pc + 1
          /\ UNCHANGED <<epc, invocations>>
       \/ /\ epc' = "idle"
          /\ invocations' = invocations + 1
          /\ pc' = pc
    /\ UNCHANGED <<non_recursive, managed_slots, insts, fixed_frame, frame,
                   ZAM_error, released>>
    /\ UNCHANGED <<analyzeVars, inlineVars, extVars>>

NextFrame == DoExecBegin \/ ExecNop \/ ExecAssign \/ ExecError \/ DoExecEnd

SpecFrame == InitFrame /\ [][NextFrame]_vars

\* C10: for a body with a fixed frame, no managed value is released twice,
\* and after every completed invocation each managed slot of the frame is
\* empty and each managed value made so far has been released once.
C10_FixedFrameLifecycle ==
    fixed_frame # NoFrame =>
        /\ \A id \in DOMAIN released : released[id] <= 1
        /\ epc = "idle" =>
              /\ \A s \in managed_slots : fixed_frame[s] = EmptyVal
              /\ \A id \in DOMAIN released : released[id] = 1

\* C10 witness: a fixed frame after several invocations, in which managed
\* slots were assigned, one of them more than once in an invocation, and
\* one invocation ended on a run-time error.
C10_Witness ==
    /\ fixed_frame # NoFrame
    /\ epc = "idle"
    /\ invocations = MaxInvocations
    /\ Len(released) > invocations
    /\ \E i, j \in DOMAIN insts :
          /\ i < j
          /\ insts[i].op = "assign" /\ insts[i].slot \in managed_slots
          /\ insts[j].op = "error"

----------------------------------------------------------------------------
\* SpecExec: bodies that call one another.

\* The instruction streams of the bodies: an instruction that may report a
\* run-time error or a call, followed by OP_NOP.
CallInsts == {[op |-> "call", f |-> f] : f \in Funcs}

ExecPrograms ==
    {<< [op |-> "nop"] >>, << [op |-> "error"], [op |-> "nop"] >>}
    \cup {<< c, [op |-> "nop"] >> : c \in CallInsts}

LeafPrograms == {p \in ExecPrograms : \A i \in DOMAIN p : p[i].op # "call"}

\* The FuncInfo of a body with instructions prog: its profile holds the
\* functions the body calls.
MkExecInfo(f, prog) ==
    [func |-> f,
     calls |-> {prog[i].f : i \in {j \in DOMAIN prog : prog[j].op = "call"}},
     skip |-> FALSE, cpp |-> FALSE, insts |-> prog]

MkExecFuncs(progsA, progB, progC) ==
    [i \in DOMAIN progsA |-> MkExecInfo(MultiFunc, progsA[i])]
    \o << MkExecInfo(MidFunc, progB), MkExecInfo(LeafFunc, progC) >>

\* ZAMCompiler::NonRecursive() for a body of function f: the verdict of
\* Inliner::Analyze.
NonRecursive(f) == f \in non_recursive_funcs

\* ZBody::ZBody lines 193-198 and SetInsts, for the body of FuncInfo fi.
MkZBody(fi) == [fixed_frame |-> NonRecursive(fi.func), insts |-> fi.insts]

\* The bodies of function f, in the order of its body list.
ExecBodies(f) == OriginalBodies(f)

\* ZBody::BuildProfVec, lines 255-263: a count of 0 for every instruction.
BuildProfVec(prog) == [i \in DOMAIN prog |-> 0]

\* The key of default_prof_vec among the profile vectors of a body: the
\* empty caller_locs, which is never a key of ZBody::prof_vecs (line 293).
DefaultProfVec == << >>

\* ZBody::InitProfile, lines 250-253, for a body with instructions prog:
\* its profile vectors, none without profiling.
InitProfile(profiling, prog) ==
    IF profiling THEN [k \in {DefaultProfVec} |-> BuildProfVec(prog)] ELSE << >>

ExecStart(profiling, progs) ==
    /\ \E nb \in 1..MaxBodies :
       \E progsA \in [1..nb -> progs] :
       \E progB \in progs, progC \in LeafPrograms :
          funcs = MkExecFuncs(progsA, progB, progC)
    /\ flavor = [f \in Funcs |-> IF f = MultiFunc THEN "hook" ELSE "function"]
    /\ non_recursive_funcs = Analyzed(funcs).nr
    /\ call_set = Analyzed(funcs).cs
    /\ inline_ables = {}
    /\ did_addition = FALSE /\ todo = {}
    /\ apc = "exec" /\ ai = 1
    /\ zbodies = [i \in DOMAIN funcs |-> MkZBody(funcs[i])]
    /\ xstack = << >>
    /\ new_frames = 0
    /\ runs = 0
    /\ ended = << >>
    /\ profile_ZAM = profiling
    /\ caller_locs = << >>
    /\ prof_vecs = [i \in DOMAIN funcs |-> InitProfile(profiling, funcs[i].insts)]
    /\ curr_prof_vec = [i \in DOMAIN funcs |-> DefaultProfVec]
    /\ non_recursive = FALSE /\ managed_slots = {}
    /\ insts = << >>
    /\ fixed_frame = NoFrame /\ frame = NoFrame
    /\ pc = 0 /\ ZAM_error = FALSE
    /\ epc = "idle" /\ invocations = 0
    /\ released = << >>
    /\ InlineIdle
    /\ VecIdle
    /\ BifIdle
    /\ TelemetryIdle

InitExec == ExecStart(FALSE, ExecPrograms)

\* What SpecExec leaves alone of the single-body variables.
frameRest == <<non_recursive, managed_slots, insts, fixed_frame, frame, pc, epc,
               invocations, released>>

\* DoExec lines 280-321 for body b: pc is 0, the frame is the body's fixed
\* frame if it has one, else a new one.
Activation(b) ==
    [body |-> b, pc |-> 0,
     frame |-> IF zbodies[b].fixed_frame THEN <<"fixed", b>> ELSE <<"new", new_frames + 1>>,
     raised |-> FALSE, in_call |-> FALSE, pending |-> << >>,
     started_at |-> caller_locs]

\* Lines 289-302: with profiling, curr_prof_vec of the body is set to the
\* vector of the calls under way, which is made if there is none yet.
EnterProfile(b) ==
    IF profile_ZAM
    THEN /\ curr_prof_vec' = [curr_prof_vec EXCEPT ![b] = caller_locs]
         /\ prof_vecs' =
               [prof_vecs EXCEPT ![b] =
                   [k \in DOMAIN @ \cup {caller_locs} |->
                       IF k \in DOMAIN @ THEN @[k] ELSE BuildProfVec(zbodies[b].insts)]]
    ELSE UNCHANGED <<curr_prof_vec, prof_vecs>>

\* DO_ZAM_PROFILE, lines 53-60, for the instruction at profile_pc of body
\* b: one more hit in the vector curr_prof_vec points to.
DO_ZAM_PROFILE(b, profile_pc) ==
    prof_vecs' =
        IF profile_ZAM
        THEN [prof_vecs EXCEPT ![b][curr_prof_vec[b]][profile_pc + 1] = @ + 1]
        ELSE prof_vecs

\* An entry of DoExec that leaves the error flag as it finds it.
EnterKeepsError(st, b) ==
    /\ xstack' = Append(st, Activation(b))
    /\ new_frames' = IF zbodies[b].fixed_frame THEN new_frames ELSE new_frames + 1
    /\ ZAM_error' = ZAM_error
    /\ EnterProfile(b)
    /\ UNCHANGED <<profile_ZAM, caller_locs>>

\* DoExec is entered for body b: the activation, the frame count, and line
\* 326, the error flag cleared.
Enter(st, b) ==
    /\ xstack' = Append(st, Activation(b))
    /\ new_frames' = IF zbodies[b].fixed_frame THEN new_frames ELSE new_frames + 1
    /\ ZAM_error' = FALSE
    /\ EnterProfile(b)
    /\ UNCHANGED <<profile_ZAM, caller_locs>>

XTop == xstack[Len(xstack)]

XSetTop(fr) == [xstack EXCEPT ![Len(xstack)] = fr]

\* z.loc of the instruction at pc of body b.
Loc(b, at) == << b, at >>

\* Line 328.
XDispatching ==
    /\ xstack # << >>
    /\ ~XTop.in_call
    /\ XTop.pc < Len(zbodies[XTop.body].insts)
    /\ ~ZAM_error

XInst == zbodies[XTop.body].insts[XTop.pc + 1]

\* The host runs a body.
HostExec ==
    /\ apc = "exec" /\ xstack = << >>
    /\ runs < MaxInvocations
    /\ \E b \in DOMAIN zbodies : Enter(xstack, b)
    /\ runs' = runs + 1
    /\ UNCHANGED <<zbodies, ended, frameRest>>
    /\ UNCHANGED <<funcs, flavor, non_recursive_funcs, call_set, inline_ables,
                   did_addition, todo, apc, ai, inlineVars, vecVars, bifVars, telemetryVars>>

\* Lines 342-343, 357-359: OP_NOP.
XNop ==
    /\ XDispatching
    /\ XInst.op = "nop"
    /\ xstack' = XSetTop([XTop EXCEPT !.pc = @ + 1])
    /\ DO_ZAM_PROFILE(XTop.body, XTop.pc)
    /\ UNCHANGED <<profile_ZAM, caller_locs, curr_prof_vec>>
    /\ UNCHANGED <<zbodies, new_frames, runs, ended, ZAM_error, frameRest>>
    /\ UNCHANGED <<analyzeVars, inlineVars, vecVars, bifVars, telemetryVars>>

\* An instruction that reports a run-time error (ZAM_run_time_error).
XError ==
    /\ XDispatching
    /\ XInst.op = "error"
    /\ ZAM_error' = TRUE
    /\ xstack' = XSetTop([XTop EXCEPT !.pc = @ + 1, !.raised = TRUE])
    /\ DO_ZAM_PROFILE(XTop.body, XTop.pc)
    /\ UNCHANGED <<profile_ZAM, caller_locs, curr_prof_vec>>
    /\ UNCHANGED <<zbodies, new_frames, runs, ended, frameRest>>
    /\ UNCHANGED <<analyzeVars, inlineVars, vecVars, bifVars, telemetryVars>>

\* A call instruction (ZAM_PROFILE_PRE_CALL, lines 61-63): the bodies of
\* the called function are to be run in turn.
XCall ==
    /\ XDispatching
    /\ XInst.op = "call"
    /\ Len(xstack) < MaxDepth
    /\ xstack' = XSetTop([XTop EXCEPT !.in_call = TRUE, !.pending = ExecBodies(XInst.f)])
    /\ caller_locs' = Append(caller_locs, Loc(XTop.body, XTop.pc))
    /\ DO_ZAM_PROFILE(XTop.body, XTop.pc)
    /\ UNCHANGED <<profile_ZAM, curr_prof_vec>>
    /\ UNCHANGED <<zbodies, new_frames, runs, ended, ZAM_error, frameRest>>
    /\ UNCHANGED <<analyzeVars, inlineVars, vecVars, bifVars, telemetryVars>>

\* The call runs the next body of the called function.
XInvoke ==
    /\ xstack # << >>
    /\ XTop.in_call /\ XTop.pending # << >>
    /\ Enter(XSetTop([XTop EXCEPT !.pending = Tail(@)]), Head(XTop.pending))
    /\ UNCHANGED <<zbodies, runs, ended, frameRest>>
    /\ UNCHANGED <<analyzeVars, inlineVars, vecVars, bifVars, telemetryVars>>

\* The call is over (ZAM_PROFILE_POST_CALL, lines 65-68): ++pc, and the
\* loop goes to its test.
XCallDone ==
    /\ xstack # << >>
    /\ XTop.in_call /\ XTop.pending = << >>
    /\ xstack' = XSetTop([XTop EXCEPT !.in_call = FALSE, !.pc = @ + 1])
    /\ caller_locs' = SubSeq(caller_locs, 1, Len(caller_locs) - 1)
    /\ UNCHANGED <<profile_ZAM, prof_vecs, curr_prof_vec>>
    /\ UNCHANGED <<zbodies, new_frames, runs, ended, ZAM_error, frameRest>>
    /\ UNCHANGED <<analyzeVars, inlineVars, vecVars, bifVars, telemetryVars>>

\* Lines 328 and 362-389: the loop is over and DoExec returns.
XReturn ==
    /\ xstack # << >>
    /\ ~XTop.in_call
    /\ ~XDispatching
    /\ ended' = << XTop >>
    /\ xstack' = SubSeq(xstack, 1, Len(xstack) - 1)
    /\ UNCHANGED profVars
    /\ UNCHANGED <<zbodies, new_frames, runs, ZAM_error, frameRest>>
    /\ UNCHANGED <<analyzeVars, inlineVars, vecVars, bifVars, telemetryVars>>

NextExec == HostExec \/ XNop \/ XError \/ XCall \/ XInvoke \/ XCallDone \/ XReturn

SpecExec == InitExec /\ [][NextExec]_vars

\* C11: no two activations use the same frame.
C11_NoSharedFrame ==
    \A i, j \in DOMAIN xstack : i # j => xstack[i].frame # xstack[j].frame

\* C12: an activation that returns before its last instruction has itself
\* reported a run-time error.
C12_OnlyFailingBodyEnds ==
    ended # << >> =>
        (ended[1].pc < Len(zbodies[ended[1].body].insts) => ended[1].raised)

----------------------------------------------------------------------------
\* SpecVec: vec_exec and vec_coerce_* (ZBody.cc).  An element of a vector
\* (std::optional<ZVal>) is << >> when missing and << x >> when present; a
\* double is held as its double, in halves.

NoElem == << >>

Optionals(S) == {NoElem} \cup {<< x >> : x \in S}

Pow2(n) == 2 ^ n

VecsOf(S) == SeqsUpTo(Optionals(S), MaxVecLen)

\* The operations of ZAM-Vec1EvalDefs.h and ZAM-Vec2EvalDefs.h that the
\* model has: each stores a value in vec1[i].
VecOps1 == {"neg", "not"}

VecOps2 == {"add", "and"}

VecEval1(op, x) ==
    IF op = "neg" THEN << (Pow2(IntBits) - x) % Pow2(IntBits) >>
    ELSE << IF x = 0 THEN 1 ELSE 0 >>

VecEval2(op, x, y) ==
    IF op = "add" THEN << (x + y) % Pow2(IntBits) >>
    ELSE << IF x # 0 /\ y # 0 THEN 1 ELSE 0 >>

\* vec[i] of a RawVec: past the end of the vector the read is out of
\* bounds and yields oob, whatever lies there.
RawElem(vec, i, oob) == IF i \in DOMAIN vec THEN vec[i] ELSE oob

\* vec_exec, unary, lines 507-533: the new vector for v1.
VecExec1(op, vec2) ==
    [i \in 1..Len(vec2) |->
        IF vec2[i] # NoElem THEN VecEval1(op, vec2[i][1]) ELSE NoElem]

\* vec_exec, binary, lines 536-560: the new vector for v1.
VecExec2(op, vec2, vec3, oob) ==
    [i \in 1..Len(vec2) |->
        IF vec2[i] # NoElem /\ RawElem(vec3, i, oob) # NoElem
        THEN VecEval2(op, vec2[i][1], RawElem(vec3, i, oob)[1])
        ELSE NoElem]

\* The instances of VEC_COERCE, lines 163-168.
CoerceTags == {"DI", "DU", "ID", "IU", "UD", "UI"}

IntMin == 0 - Pow2(IntBits - 1)

IntMax == Pow2(IntBits - 1) - 1

CountMax == Pow2(IntBits) - 1

\* Values of the type an instance reads (rhs_accessor): zeek_int_t,
\* zeek_uint_t, or double (in halves).
CoerceSource(tag) ==
    IF tag \in {"DI", "UI"} THEN {IntMin, -1, 0, 1, IntMax}
    ELSE IF tag \in {"DU", "IU"} THEN {0, 1, IntMax, IntMax + 1, CountMax}
    ELSE {0 - 4 * Pow2(IntBits), -3, 1, 3, 2 * IntMax, 2 * CountMax, 4 * Pow2(IntBits)}

\* Truncation of a double (in halves) towards zero.
Trunc(h) == IF h >= 0 THEN h \div 2 ELSE 0 - ((0 - h) \div 2)

\* ov_check of an instance: false_func, double_to_int_would_overflow,
\* count_to_int_would_overflow, double_to_count_would_overflow,
\* int_to_count_would_overflow.
WouldOverflow(tag, vi) ==
    CASE tag \in {"DI", "DU"} -> FALSE
      [] tag = "ID" -> Trunc(vi) < IntMin \/ Trunc(vi) > IntMax
      [] tag = "IU" -> vi > IntMax
      [] tag = "UD" -> vi < 0 \/ Trunc(vi) > CountMax
      [] tag = "UI" -> vi < 0

\* ZVal(cast(vi)) of an instance, read back as the target type.
CoerceCast(tag, vi) ==
    CASE tag \in {"DI", "DU"} -> 2 * vi
      [] tag \in {"ID", "UD"} -> Trunc(vi)
      [] tag = "IU" -> vi
      [] tag = "UI" -> (vi + Pow2(IntBits)) % Pow2(IntBits)

\* The element that stands for an overflowing one when the cast is stored
\* nevertheless.
CoerceElemWrapped(tag, e) ==
    IF e = NoElem THEN NoElem ELSE << CoerceCast(tag, e[1]) >>

\* Lines 145-159: res[i] for the element e of the operand.
CoerceElem(tag, e) ==
    IF e # NoElem
    THEN IF WouldOverflow(tag, e[1]) THEN NoElem ELSE << CoerceCast(tag, e[1]) >>
    ELSE NoElem

\* Lines 138-161: the vector returned.
VecCoerce(tag, vec) == [i \in 1..Len(vec) |-> CoerceElem(tag, vec[i])]

\* Lines 147-152: the calls of ZAM_run_time_error, one per overflowing element.
VecCoerceErrors(tag, vec) ==
    Cardinality({i \in DOMAIN vec : vec[i] # NoElem /\ WouldOverflow(tag, vec[i][1])})

\* The operands are vectors of the same yield type; a binary operation is
\* given two vectors, each of any length.
InitVec ==
    /\ \/ \E op \in VecOps1, v2 \in VecsOf({0, 1, CountMax}) :
             vcall = [kind |-> "unary", op |-> op, v2 |-> v2]
       \/ \E op \in VecOps2, v2 \in VecsOf({0, 1}), v3 \in VecsOf({0, 1}), oob \in Optionals({1}) :
             /\ Len(v3) >= Len(v2) => oob = NoElem
             /\ vcall = [kind |-> "binary", op |-> op, v2 |-> v2, v3 |-> v3, oob |-> oob]
       \/ \E tag \in CoerceTags :
          \E v \in VecsOf(CoerceSource(tag)) :
             vcall = [kind |-> "coerce", op |-> tag, v2 |-> v]
    /\ vres = << >>
    /\ AnalyzeIdle
    /\ InlineIdle
    /\ FrameIdle
    /\ ExecIdle
    /\ BifIdle
    /\ TelemetryIdle

\* vec_exec(op, t, v1, v2, z).
VecExecUnary ==
    /\ vres = << >> /\ vcall # << >>
    /\ vcall.kind = "unary"
    /\ vres' = << [v1 |-> VecExec1(vcall.op, vcall.v2), errors |-> 0] >>
    /\ UNCHANGED <<vcall, analyzeVars, inlineVars, frameVars, execVars, bifVars, telemetryVars>>

\* vec_exec(op, t, v1, v2, v3, z).
VecExecBinary ==
    /\ vres = << >> /\ vcall # << >>
    /\ vcall.kind = "binary"
    /\ vres' = << [v1 |-> VecExec2(vcall.op, vcall.v2, vcall.v3, vcall.oob), errors |-> 0] >>
    /\ UNCHANGED <<vcall, analyzeVars, inlineVars, frameVars, execVars, bifVars, telemetryVars>>

\* vec_coerce_<tag>(vec, z); ZAM_run_time_error raises the error flag.
VecCoerceCall ==
    /\ vres = << >> /\ vcall # << >>
    /\ vcall.kind = "coerce"
    /\ vres' = << [v1 |-> VecCoerce(vcall.op, vcall.v2),
                   errors |-> VecCoerceErrors(vcall.op, vcall.v2)] >>
    /\ ZAM_error' = (ZAM_error \/ VecCoerceErrors(vcall.op, vcall.v2) > 0)
    /\ UNCHANGED <<vcall, analyzeVars, inlineVars, frameRest, execVars, bifVars, telemetryVars>>

NextVec == VecExecUnary \/ VecExecBinary \/ VecCoerceCall

SpecVec == InitVec /\ [][NextVec]_vars

\* The element at index i of vec is missing: it is not there, or empty.
Missing(vec, i) == i \notin DOMAIN vec \/ vec[i] = NoElem

\* C13: the result of an elementwise operation is as long as its (first)
\* operand, and its element at i is missing if the element at i of an
\* operand is missing.
C13_VectorMasking ==
    (vres # << >> /\ vcall.kind \in {"unary", "binary"}) =>
        /\ Len(vres[1].v1) = Len(vcall.v2)
        /\ vcall.kind = "binary" => Len(vres[1].v1) = Len(vcall.v3)
        /\ \A i \in DOMAIN vres[1].v1 :
              (Missing(vcall.v2, i) \/ (vcall.kind = "binary" /\ Missing(vcall.v3, i)))
                  => vres[1].v1[i] = NoElem

\* The value of the target type that equals x of the source type, for the
\* conversion tag; << >> if the target type has none.
Converted(tag, x) ==
    LET y == IF tag \in {"ID", "UD"} THEN Trunc(x) ELSE x
        lo == IF tag \in {"ID", "IU"} THEN IntMin ELSE 0
        hi == IF tag \in {"ID", "IU"} THEN IntMax ELSE CountMax
    IN  IF tag \in {"DI", "DU"} THEN << 2 * x >>
        ELSE IF y < lo \/ y > hi THEN << >> ELSE << y >>

\* C14: a coercion returns a vector as long as its operand; a missing
\* element stays missing, an element that does not fit the target type is
\* missing and is reported once, every other element is the converted
\* value; an element of the result depends on its own index only.
C14_CoercePerElement ==
    (vres # << >> /\ vcall.kind = "coerce") =>
        LET tag == vcall.op
            in == vcall.v2
            out == vres[1].v1
        IN  /\ Len(out) = Len(in)
            /\ \A i \in DOMAIN in :
                  /\ out[i] = IF in[i] = NoElem THEN NoElem ELSE Converted(tag, in[i][1])
                  /\ out[i] = VecCoerce(tag, << in[i] >>)[1]
            /\ vres[1].errors =
                  Cardinality({i \in DOMAIN in :
                                  in[i] # NoElem /\ Converted(tag, in[i][1]) = << >>})

\* C14 witness: a coercion of a vector with a missing element, an
\* overflowing element and an element that fits.
C14_Witness ==
    /\ vres # << >> /\ vcall # << >>
    /\ vcall.kind = "coerce"
    /\ vres[1].errors = 1
    /\ \E i, j \in DOMAIN vres[1].v1 :
          /\ vres[1].v1[i] # NoElem
          /\ vcall.v2[j] # NoElem /\ vres[1].v1[j] = NoElem

----------------------------------------------------------------------------
\* SpecBuiltIn: ZAMCompiler::IsZAM_BuiltIn (BuiltIn.cc).  An argument is
\* [tag, type, id]: a named variable or a constant, of a type, id being its
\* position in the call (its frame slot or its value).

ArgTypes == <<"string", "count", "pattern", "table">>

\* The argument list of k arguments of which those at the positions consts
\* are constants, the types going round ArgTypes from the r-th on.
MkArgs(k, consts, r) ==
    [i \in 1..k |-> [tag |-> IF i \in consts THEN "const" ELSE "name",
                     type |-> ArgTypes[((i - 1 + r) % 4) + 1],
                     id |-> i, val |-> 0]]

\* sub_bytes_consts, line 510: the types of the arguments of sub_bytes.
sub_bytes_consts == << "string", "count", "int" >>

\* The arguments of a call of sub_bytes: those at the positions consts are
\* constants, the second of value start, the third of value len.
SubBytesArgs(consts, start, len) ==
    [i \in 1..3 |-> [tag |-> IF i \in consts THEN "const" ELSE "name",
                     type |-> sub_bytes_consts[i],
                     id |-> i,
                     val |-> IF i \notin consts THEN 0
                             ELSE IF i = 2 THEN start ELSE IF i = 3 THEN len ELSE 0]]

\* static_cast<int> of a 64-bit value, and the assignment of a zeek_int_t to
\* an int: the value modulo 2^SlotBits, as a signed number.
NarrowToInt(x) ==
    ((x + Pow2(SlotBits - 1) + Pow2(IntBits)) % Pow2(SlotBits)) - Pow2(SlotBits - 1)

\* A slot of an instruction that holds the value as it is.
NotNarrowed(x) == x

\* The table of IsZAM_BuiltIn, lines 530-550: each strategy with the
\* members of ZAMBuiltIn and DirectBuiltIn.
MkBuiltIn(name, kind, op, op2, nargs, rvm, both) ==
    [name |-> name, kind |-> kind, op |-> op, op2 |-> op2, nargs |-> nargs,
     return_val_matters |-> rvm, have_both |-> both]

builtins ==
    { MkBuiltIn("Analyzer::__name", "direct", "OP_ANALYZER_NAME_VV", "", 1, TRUE, FALSE),
      MkBuiltIn("Broker::__flush_logs", "direct_opt", "OP_BROKER_FLUSH_LOGS_V",
                "OP_BROKER_FLUSH_LOGS_X", 0, FALSE, TRUE),
      MkBuiltIn("Files::__enable_reassembly", "direct", "OP_FILES_ENABLE_REASSEMBLY_V", "", 1, FALSE, FALSE),
      MkBuiltIn("Files::__set_reassembly_buffer", "files_set", "", "", 2, FALSE, FALSE),
      MkBuiltIn("Log::__write", "log_write", "", "", 2, FALSE, FALSE),
      MkBuiltIn("cat", "cat", "", "", 0, TRUE, FALSE),
      MkBuiltIn("current_time", "direct", "OP_CURRENT_TIME_V", "", 0, TRUE, FALSE),
      MkBuiltIn("get_port_transport_proto", "direct", "OP_GET_PORT_TRANSPORT_PROTO_VV", "", 1, TRUE, FALSE),
      MkBuiltIn("is_v4_addr", "direct", "OP_IS_V4_ADDR_VV", "", 1, TRUE, FALSE),
      MkBuiltIn("is_v6_addr", "direct", "OP_IS_V6_ADDR_VV", "", 1, TRUE, FALSE),
      MkBuiltIn("network_time", "direct", "OP_NETWORK_TIME_V", "", 0, TRUE, FALSE),
      MkBuiltIn("reading_live_traffic", "direct", "OP_READING_LIVE_TRAFFIC_V", "", 0, TRUE, FALSE),
      MkBuiltIn("reading_traces", "direct", "OP_READING_TRACES_V", "", 0, TRUE, FALSE),
      MkBuiltIn("set_current_conn_bytes_threshold", "conn_thresh", "", "", 3, TRUE, FALSE),
      MkBuiltIn("sort", "sort", "OP_SORT_V", "", 1, FALSE, FALSE),
      MkBuiltIn("strstr", "strstr", "", "", 2, TRUE, FALSE),
      MkBuiltIn("sub_bytes", "multi", "", "", 3, TRUE, FALSE),
      MkBuiltIn("to_lower", "direct", "OP_TO_LOWER_VV", "", 1, TRUE, FALSE) }

\* A built-in function that is not in the table.
OtherBiF == "to_upper"

\* An instruction: its opcode, whether its first slot is the assignment's
\* destination, its other slots and constants, and its aux entries.
ZInstI(op, dest, operands, aux) ==
    [op |-> op, dest |-> dest, operands |-> operands, aux |-> aux]

\* What a Build does: its return value and what AddInst has appended.
Built(z) == [ok |-> TRUE, insts |-> << z >>]

NotBuilt == [ok |-> FALSE, insts |-> << >>]

\* DirectBuiltIn::Build, lines 32-53.
DirectBuild(bi, n, args) ==
    Built(ZInstI(bi.op, n, IF bi.nargs = 0 THEN << >> ELSE << args[1].id >>, << >>))

\* DirectBuiltInOptAssign::Build, lines 67-84.
DirectOptBuild(bi, n, args) ==
    IF n THEN DirectBuild(bi, n, args)
    ELSE IF bi.nargs = 0 THEN Built(ZInstI(bi.op2, FALSE, << >>, << >>))
    ELSE Built(ZInstI(bi.op, FALSE, << args[1].id >>, << >>))

\* ConstArgsMask, lines 200-210.
ConstArgsMask(args) ==
    LET Bit(i) == IF args[i].tag = "const" THEN 1 ELSE 0
    IN  IF Len(args) = 3 THEN 4 * Bit(1) + 2 * Bit(2) + Bit(3)
        ELSE IF Len(args) = 2 THEN 2 * Bit(1) + Bit(2)
        ELSE IF Len(args) = 1 THEN Bit(1) ELSE 0

\* sub_bytes_info, lines 518-525, by the value of the ArgType.
sub_bytes_info ==
    [mask \in 0..7 |->
        CASE mask = 0 -> "OP_SUB_BYTES_VVVV"
          [] mask = 1 -> "OP_SUB_BYTES_VVVi"
          [] mask = 2 -> "OP_SUB_BYTES_VViV"
          [] mask = 3 -> "OP_SUB_BYTES_VVii"
          [] mask = 4 -> "OP_SUB_BYTES_VVVC"
          [] mask = 5 -> "OP_SUB_BYTES_VViC"
          [] mask = 6 -> "OP_SUB_BYTES_ViVC"
          [] mask = 7 -> "OP_SUB_BYTES_ViiC"]

\* Lines 128-150: the vector v, an entry per argument: the slot of a
\* variable, 0 for a constant first argument, else the constant as an int.
MultiArgSlots(args) ==
    [i \in 1..Len(args) |->
        IF args[i].tag = "name" THEN [arg |-> i, kind |-> "slot", val |-> args[i].id]
        ELSE IF i = 1 THEN [arg |-> i, kind |-> "unused", val |-> 0]
        ELSE [arg |-> i, kind |-> "int", val |-> NarrowToInt(args[i].val)]]

\* v without the reordering of lines 159-172.
MultiArgUnordered(consts, v) == IF consts >= 4 THEN Tail(v) ELSE v

\* Lines 158-172: v reordered for the combination consts.
MultiArgReorder(consts, v) ==
    LET swapped == << v[1], v[3], v[2] >>
    IN  CASE consts \in {0, 1, 3} -> v
          [] consts = 2 -> swapped
          [] consts = 6 -> Tail(swapped)
          [] consts \in {4, 5, 7} -> Tail(v)

\* MultiArgBuiltIn::Build, lines 120-193, for sub_bytes.
MultiArgBuild(n, args) ==
    LET consts == ConstArgsMask(args)
        c == args[1].tag = "const"
        w == MultiArgReorder(consts, MultiArgSlots(args))
    IN  IF consts \notin DOMAIN sub_bytes_info THEN NotBuilt
        ELSE Built(ZInstI(sub_bytes_info[consts], n,
                          IF c THEN << w[1], w[2], [arg |-> 1, kind |-> "const", val |-> 0] >>
                          ELSE << w[1], w[2], w[3] >>,
                          << >>))

\* The opcode that takes as many arguments as the list has, with its
\* choice by the arguments' being constants or not.
CatOpByShape(args) ==
    IF \E i \in DOMAIN args : args[i].tag = "const" THEN "OP_CATN_V"
    ELSE "OP_CAT3_V"

\* The switch of lines 278-288 with OP_CAT8_V left out.
CatOpUpTo7(args) ==
    CASE Len(args) = 2 -> "OP_CAT2_V"
      [] Len(args) = 3 -> "OP_CAT3_V"
      [] Len(args) = 4 -> "OP_CAT4_V"
      [] Len(args) = 5 -> "OP_CAT5_V"
      [] Len(args) = 6 -> "OP_CAT6_V"
      [] Len(args) = 7 -> "OP_CAT7_V"
      [] OTHER -> "OP_CATN_V"

\* CatBiF::Build, lines 278-288: the opcode for more than one argument.
CatOp(args) ==
    CASE Len(args) = 2 -> "OP_CAT2_V"
      [] Len(args) = 3 -> "OP_CAT3_V"
      [] Len(args) = 4 -> "OP_CAT4_V"
      [] Len(args) = 5 -> "OP_CAT5_V"
      [] Len(args) = 6 -> "OP_CAT6_V"
      [] Len(args) = 7 -> "OP_CAT7_V"
      [] Len(args) = 8 -> "OP_CAT8_V"
      [] OTHER -> "OP_CATN_V"

\* CatBiF::BuildCatAux, lines 319-366: entry i holds the constant or the
\* slot of argument i and its CatArg.
BuildCatAux(args) ==
    [i \in 1..Len(args) |->
        IF args[i].tag = "const"
        THEN [arg |-> args[i].id, const |-> TRUE, cat_arg |-> "CatArg"]
        ELSE [arg |-> args[i].id, const |-> FALSE,
              cat_arg |-> CASE args[i].type = "count" -> "FixedCatArg"
                            [] args[i].type = "string" -> "StringCatArg"
                            [] args[i].type = "pattern" -> "PatternCatArg"
                            [] OTHER -> "DescCatArg"]]

\* CatBiF::Build, lines 265-316.
CatBuild(n, args) ==
    IF Len(args) = 0 THEN Built(ZInstI("OP_CAT1_VC", n, << "" >>, << >>))
    ELSE IF Len(args) > 1 THEN Built(ZInstI(CatOp(args), n, << >>, BuildCatAux(args)))
    ELSE IF args[1].type # "string"
         THEN IF args[1].tag = "name"
              THEN Built(ZInstI("OP_CAT1FULL_VV", n, << args[1].id >>, << >>))
              ELSE Built(ZInstI("OP_CAT1_VC", n, << "ZAM_val_cat" >>, << >>))
    ELSE IF args[1].tag = "const" THEN Built(ZInstI("OP_CAT1_VC", n, << "c" >>, << >>))
    ELSE Built(ZInstI("OP_CAT1_VV", n, << args[1].id >>, << >>))

\* The types the tests of SortBiF::Build look at: whether the first argument
\* is a vector and of which elements, whether the second one has a function
\* type, whether its identifier has a value, and the function's yield and
\* parameter types.
ElemTypes == {"count", "int", "double", "time", "string"}

ParamLists ==
    {<< "count", "count" >>, << "count" >>, << "count", "string" >>,
     << "string", "count" >>, << "double", "double" >>, << "count", "count", "count" >>}

SortTypes ==
    [vector : BOOLEAN, elt : ElemTypes, func : BOOLEAN, hasval : BOOLEAN,
     yield : {"int", "bool"}, params : ParamLists]

NoSortTypes ==
    [vector |-> FALSE, elt |-> "count", func |-> FALSE, hasval |-> FALSE,
     yield |-> "int", params |-> << "count" >>]

\* IsIntegral (Type.h) and Type::InternalType for the element types.
IsIntegral(t) == t \in {"count", "int"}

InternalType(t) == IF t \in {"double", "time"} THEN "double" ELSE t

\* TypeList::AllMatch(t, false): every type of the list is t.
AllMatch(params, t) == \A i \in 1..Len(params) : params[i] = t

\* A comparator that takes whatever its parameters are.
SortComparatorAnyParams(args, types) ==
    /\ types.func
    /\ args[2].tag = "name"
    /\ types.hasval
    /\ types.yield = "int"

\* SortBiF::Build, lines 237-253: the tests of the comparator.
SortComparatorFits(args, types) ==
    /\ types.func
    /\ args[2].tag = "name"
    /\ types.hasval
    /\ ~(\/ types.yield # "int"
         \/ ~AllMatch(types.params, types.elt)
         \/ Len(types.params) # 2)

\* The Build of the other strategies: FilesSetReassemBiF (373-396),
\* LogWriteBiF (403-448), SetConnBytesThreshBiF (455), StrStrBiF (462-483),
\* SortBiF (220-258).
SpecialBuild(bi, n, args, types) ==
    CASE bi.kind = "files_set" ->
            IF args[1].tag = "const" THEN NotBuilt
            ELSE IF args[2].tag = "name"
                 THEN Built(ZInstI("OP_FILES_SET_REASSEMBLY_BUFFER_VV", FALSE,
                                   << args[1].id, args[2].id >>, << >>))
                 ELSE Built(ZInstI("OP_FILES_SET_REASSEMBLY_BUFFER_VC", FALSE,
                                   << args[1].id, args[2].id >>, << >>))
      [] bi.kind = "log_write" ->
            IF args[2].tag # "name" THEN NotBuilt
            ELSE IF n
                 THEN IF args[1].tag = "const"
                      THEN Built(ZInstI("OP_LOG_WRITEC_VV", TRUE, << args[2].id >>, << args[1].id >>))
                      ELSE Built(ZInstI("OP_LOG_WRITE_VVV", TRUE, << args[1].id, args[2].id >>, << >>))
                 ELSE IF args[1].tag = "const"
                      THEN Built(ZInstI("OP_LOG_WRITEC_V", FALSE, << args[2].id >>, << args[1].id >>))
                      ELSE Built(ZInstI("OP_LOG_WRITE_VV", FALSE, << args[1].id, args[2].id >>, << >>))
      [] bi.kind = "conn_thresh" -> [ok |-> TRUE, insts |-> << >>]
      [] bi.kind = "strstr" ->
            IF args[1].tag = "name" /\ args[2].tag = "name"
            THEN Built(ZInstI("OP_STRSTR_VVV", n, << args[1].id, args[2].id >>, << >>))
            ELSE IF args[1].tag = "name"
            THEN Built(ZInstI("OP_STRSTR_VVC", n, << args[1].id, "c" >>, << >>))
            ELSE IF args[2].tag = "name"
            THEN Built(ZInstI("OP_STRSTR_VCV", n, << args[2].id, "c" >>, << >>))
            ELSE NotBuilt
      [] bi.kind = "sort" ->
            IF Len(args) > 2 THEN NotBuilt
            ELSE IF ~types.vector THEN NotBuilt
            ELSE IF Len(args) = 1
                 THEN IF ~IsIntegral(types.elt) /\ InternalType(types.elt) # "double"
                      THEN NotBuilt
                      ELSE DirectBuild(bi, n, args)
            ELSE IF ~SortComparatorFits(args, types) THEN NotBuilt
            ELSE Built(ZInstI("OP_SORT_WITH_CMP_VV", FALSE, << args[1].id, args[2].id >>, << >>))

\* bi->Build(this, n, c->Args()->Exprs()), line 580.
Build(bi, n, args, types) ==
    CASE bi.kind = "direct" -> DirectBuild(bi, n, args)
      [] bi.kind = "direct_opt" -> DirectOptBuild(bi, n, args)
      [] bi.kind = "multi" -> MultiArgBuild(n, args)
      [] bi.kind = "cat" -> CatBuild(n, args)
      [] OTHER -> SpecialBuild(bi, n, args, types)

\* A strategy for which no return value matters.
ReturnValNeverMatters(bi) == FALSE

\* ZAMBuiltIn::ReturnValMatters, line 16.
ReturnValMatters(bi) == bi.return_val_matters

\* ZAMCompiler::IsZAM_BuiltIn, lines 486-581: its return value, the
\* instructions it has appended and the warnings it has given.
IsZAM_BuiltIn(e) ==
    IF e.callee # "builtin" \/ ~(\E b \in builtins : b.name = e.func)
    THEN [ok |-> FALSE, insts |-> << >>, warnings |-> 0]
    ELSE LET bi == CHOOSE b \in builtins : b.name = e.func
             built == Build(bi, e.n, e.args, e.types)
         IN  IF ReturnValMatters(bi) /\ ~e.n
             THEN [ok |-> TRUE, insts |-> << >>, warnings |-> 1]
             ELSE IF ~ReturnValMatters(bi) /\ e.n /\ ~bi.have_both
             THEN [ok |-> FALSE, insts |-> << >>, warnings |-> 0]
             ELSE [ok |-> built.ok, insts |-> built.insts, warnings |-> 0]

\* The argument lists a call of the strategy bi can have.
ArgLists(bi) ==
    CASE bi.kind \in {"direct", "direct_opt"} -> {MkArgs(bi.nargs, {}, r) : r \in 0..3}
      [] bi.kind = "cat" ->
            UNION {{MkArgs(k, consts, r) : consts \in SUBSET (1..k), r \in 0..3} : k \in 0..MaxCatArgs}
      [] bi.kind = "sort" ->
            UNION {{MkArgs(k, consts, 0) : consts \in SUBSET (2..k)} : k \in 1..3}
      [] bi.kind = "multi" ->
            {SubBytesArgs(consts, start, len) :
                consts \in SUBSET (1..3),
                start \in {0, 1, Pow2(SlotBits - 1), Pow2(IntBits) - 1},
                len \in {0 - Pow2(IntBits - 1), -1, 0, 1, Pow2(IntBits - 1) - 1}}
      [] OTHER -> {MkArgs(bi.nargs, consts, 0) : consts \in SUBSET (1..bi.nargs)}

\* The expression: a call, or an assignment of a call (n), to a built-in
\* function, to a script function, to an undefined function or indirect.
InitBuiltIn ==
    /\ \/ \E bi \in builtins : \E args \in ArgLists(bi) : \E n \in BOOLEAN :
          \E types \in (IF bi.kind = "sort" THEN SortTypes ELSE {NoSortTypes}) :
             bif_call = [callee |-> "builtin", func |-> bi.name, args |-> args,
                         n |-> n, types |-> types]
       \/ \E callee \in {"builtin", "script", "undefined", "indirect"}, n \in BOOLEAN :
             bif_call = [callee |-> callee, func |-> OtherBiF, args |-> MkArgs(1, {}, 0),
                         n |-> n, types |-> NoSortTypes]
    /\ bif_out = << >>
    /\ AnalyzeIdle
    /\ InlineIdle
    /\ FrameIdle
    /\ ExecIdle
    /\ VecIdle
    /\ TelemetryIdle

\* The compiler asks whether the expression is a call it has instructions for.
SelectBuiltIn ==
    /\ bif_call # << >> /\ bif_out = << >>
    /\ bif_out' = << IsZAM_BuiltIn(bif_call) >>
    /\ UNCHANGED <<bif_call, analyzeVars, inlineVars, frameVars, execVars, vecVars, telemetryVars>>

NextBuiltIn == SelectBuiltIn

SpecBuiltIn == InitBuiltIn /\ [][NextBuiltIn]_vars

\* The expression was a call of the table's built-in function named func.
Selected(func) ==
    /\ bif_call # << >> /\ bif_out # << >>
    /\ bif_call.callee = "builtin" /\ bif_call.func = func

\* C15: a successful selection for an assigned call has appended exactly
\* one instruction, and it writes the destination.
C15_SuccessAppendsOne ==
    \A bi \in builtins :
        (Selected(bi.name) /\ bif_call.n /\ bif_out[1].ok) =>
            /\ Len(bif_out[1].insts) = 1
            /\ bif_out[1].insts[1].dest

\* C16: a discarded result that matters gives a warning, no instruction
\* and success; an assigned result of a built-in function that has no
\* assigning instruction makes the selector decline and append nothing.
C16_DiscardAndDecline ==
    \A bi \in builtins :
        Selected(bi.name) =>
            /\ (bi.return_val_matters /\ ~bif_call.n) =>
                  bif_out[1] = [ok |-> TRUE, insts |-> << >>, warnings |-> 1]
            /\ (~bi.return_val_matters /\ ~bi.have_both /\ bif_call.n) =>
                  bif_out[1] = [ok |-> FALSE, insts |-> << >>, warnings |-> 0]

\* C16 witness: a discarded call of cat has been turned into a no-op.
C16_Witness ==
    /\ Selected("cat") /\ ~bif_call.n
    /\ Len(bif_call.args) = 2
    /\ bif_out[1].ok /\ bif_out[1].warnings = 1

\* The opcodes OP_CAT2_V .. OP_CAT8_V, by the number of arguments less one.
FixedCatOps ==
    << "OP_CAT2_V", "OP_CAT3_V", "OP_CAT4_V", "OP_CAT5_V", "OP_CAT6_V",
       "OP_CAT7_V", "OP_CAT8_V" >>

\* C17: an assigned cat of k >= 2 arguments is one instruction, of the
\* k-argument opcode for k <= 8 and of the N-ary opcode beyond, whose aux
\* has k entries, entry i holding argument i.
C17_CatOpcodeAndAux ==
    (Selected("cat") /\ bif_call.n /\ Len(bif_call.args) >= 2) =>
        LET k == Len(bif_call.args)
            out == bif_out[1]
        IN  /\ out.ok /\ Len(out.insts) = 1
            /\ out.insts[1].op = IF k <= 8 THEN FixedCatOps[k - 1] ELSE "OP_CATN_V"
            /\ Len(out.insts[1].aux) = k
            /\ \A i \in 1..k :
                  /\ out.insts[1].aux[i].arg = bif_call.args[i].id
                  /\ out.insts[1].aux[i].const = (bif_call.args[i].tag = "const")

\* C17 witness: an assigned cat of 9 arguments.
C17_Witness ==
    /\ Selected("cat") /\ bif_call.n
    /\ Len(bif_call.args) = 9
    /\ Len(bif_out[1].insts) = 1 /\ Len(bif_out[1].insts[1].aux) = 9

\* The assigned cat of three arguments has exactly one constant argument.
Cat3OneConst ==
    /\ Selected("cat") /\ bif_call.n
    /\ Len(bif_call.args) = 3
    /\ Cardinality({i \in 1..3 : bif_call.args[i].tag = "const"}) = 1

\* The same call with every argument a named variable.
AllNamed(e) == [e EXCEPT !.args = [i \in DOMAIN e.args |-> [e.args[i] EXCEPT !.tag = "name"]]]

\* C18: a cat of three arguments with one constant selects another opcode
\* than with three named variables.
C18_ConstSelectsVariant ==
    Cat3OneConst =>
        bif_out[1].insts[1].op # IsZAM_BuiltIn(AllNamed(bif_call)).insts[1].op

\* C18, as the code has it: a cat of three arguments with one constant
\* selects the opcode of three named variables, OP_CAT3_V; the constant
\* shows in its aux entry only.
C18_ConstSameOpcode ==
    Cat3OneConst =>
        /\ bif_out[1].insts[1].op = "OP_CAT3_V"
        /\ bif_out[1].insts[1].op = IsZAM_BuiltIn(AllNamed(bif_call)).insts[1].op
        /\ bif_out[1].insts[1].aux # IsZAM_BuiltIn(AllNamed(bif_call)).insts[1].aux

\* C18 witness: cat(a, "b", c) assigned.
C18_Witness ==
    /\ Cat3OneConst
    /\ bif_call.args[2].tag = "const"
    /\ bif_out[1].ok

----------------------------------------------------------------------------
\* SpecTelemetry: GetOrAdd of BaseCounterFamily, BaseGaugeFamily and
\* BaseHistogramFamily (Counter.h, Gauge.h, Histogram.h), the same code
\* three times.  A label set is a set of << name, value >> pairs; a metric
\* handle is the metric's place in the family's vector.

LabelSets == { {}, {<< "method", "get" >>}, {<< "method", "put" >>} }

\* prometheus::Labels p_labels; as GetOrAdd declares it and leaves it.
p_labels(labels) == {}

\* BaseCounter::CompareLabels, Counter.h:65.
CompareLabels(metric, other) == metric = other

InitTelemetry ==
    /\ family \in {"counter", "gauge", "histogram"}
    /\ metrics = << >>
    /\ handles = << >>
    /\ AnalyzeIdle
    /\ InlineIdle
    /\ FrameIdle
    /\ ExecIdle
    /\ VecIdle
    /\ BifIdle

\* GetOrAdd(labels): the first metric whose labels compare equal to
\* p_labels, else a new metric made with p_labels.
GetOrAdd ==
    /\ family # ""
    /\ Len(handles) < MaxGetOrAdd
    /\ \E labels \in LabelSets :
          LET found == {i \in DOMAIN metrics : CompareLabels(metrics[i], p_labels(labels))}
              it == IF found # {} THEN CHOOSE i \in found : \A j \in found : i <= j
                    ELSE Len(metrics) + 1
          IN  /\ metrics' = IF found # {} THEN metrics ELSE Append(metrics, p_labels(labels))
              /\ handles' = Append(handles, [labels |-> labels, metric |-> it])
    /\ UNCHANGED <<family, analyzeVars, inlineVars, frameVars, execVars, vecVars, bifVars>>

NextTelemetry == GetOrAdd

SpecTelemetry == InitTelemetry /\ [][NextTelemetry]_vars

\* C19: two calls of GetOrAdd on the family return the same metric if and
\* only if they were given equal label sets.
C19_SameMetricIffSameLabels ==
    \A i, j \in DOMAIN handles :
        (handles[i].metric = handles[j].metric) <=> (handles[i].labels = handles[j].labels)

----------------------------------------------------------------------------
\* Termination of the closure loop of Analyze.  Analyze is one sequential
\* function: whenever it has a next step it takes it, which is weak
\* fairness of its steps.

FairSpecAnalyze == SpecAnalyze /\ WF_vars(NextAnalyze)

\* In a step of the closure loop no call set loses a function.
CallSetsGrow ==
    apc \in {"loop", "pass"} =>
        /\ DOMAIN call_set \subseteq DOMAIN call_set'
        /\ \A f \in DOMAIN call_set : call_set[f] \subseteq call_set'[f]

\* The loop test after a pass that has added nothing leaves the loop.
StopsAfterIdlePass ==
    (apc = "loop" /\ ~did_addition) => apc' = "select"

\* C20: the closure loop terminates for every call graph, its call sets
\* only grow, and it stops at the first pass that adds no edge.
C20_ClosureTerminates ==
    /\ <>ClosureConverged
    /\ [][CallSetsGrow /\ StopsAfterIdlePass]_vars

\* C20 witness: the loop has ended for a function on a call cycle whose
\* call set has gained a function in the loop.
C20_Witness ==
    /\ ClosureConverged
    /\ \E f \in DOMAIN call_set :
          /\ OnCallCycle(f)
          /\ \E g \in call_set[f] : g \notin DirectCalls(f)

----------------------------------------------------------------------------
\* The recursion marking at convergence.

\* C21: when the closure loop has converged, a function that is not in
\* non_recursive_funcs can reach itself through call edges, and the set is
\* the one that visiting the functions in their order of definition gives.
C21_MarkingExact ==
    ClosureConverged =>
        /\ \A f \in Funcs : f \notin non_recursive_funcs => OnCallCycle(f)
        /\ non_recursive_funcs = Analyzed(funcs).nr

\* C21 witness: the loop has converged with a function marked recursive
\* that does not call itself directly, and another one left non-recursive.
C21_Witness ==
    /\ ClosureConverged
    /\ \E f \in Funcs : f \notin non_recursive_funcs /\ f \notin DirectCalls(f)
    /\ non_recursive_funcs # {}

----------------------------------------------------------------------------
\* SpecCollapse: the inlining pass for handlers that differ in what
\* CollapseEventHandlers tests: the flavor, the name, and per body whether
\* it is analysed and whether its scope has a &group attribute.

\* What sets the bodies of MultiFunc apart: nothing, the flavor hook, the
\* name zeek_init, or body k not analysed or in a group.
HandlerKinds(nb) ==
    {<< "plain", 0 >>, << "hook", 0 >>, << "zeek_init", 0 >>}
        \cup {<< "unanalyzed", k >> : k \in 1..nb} \cup {<< "group", k >> : k \in 1..nb}

WithHandlerKind(fs, d) ==
    [i \in DOMAIN fs |->
        IF fs[i].func # MultiFunc THEN fs[i]
        ELSE [fs[i] EXCEPT !.fname = IF d[1] = "zeek_init" THEN "zeek_init" ELSE @,
                           !.analyze = ~(d[1] = "unanalyzed" /\ d[2] = i),
                           !.group = (d[1] = "group" /\ d[2] = i)]]

InitCollapse ==
    \E nb \in 1..MaxBodies :
    \E d \in HandlerKinds(nb) :
    \E firstSites \in SeqsUpTo(DirectSites, 1) :
    \E otherSites \in [1..(nb - 1) -> SeqsUpTo(DirectSites, 1)] :
    \E sitesB \in SeqsUpTo(DirectSites, 1) \cup {<<c>> : c \in OddSites} :
    \E sizeA \in BodySizes, sizeB \in BodySizes, sizeC \in BodySizes :
       InlineStart(WithHandlerKind(MkInlineFuncs(firstSites, otherSites, sizeA,
                                                 sitesB, sizeB, sizeC), d),
                   [InlineFlavor EXCEPT ![MultiFunc] =
                       IF d[1] = "hook" THEN "hook" ELSE "event"])

SpecCollapse == InitCollapse /\ [][NextInline]_vars

\* A merge of the bodies of f is or was under way.
MergeAttempted(f) ==
    \/ f \in merge_todo
    \/ merge_result[f] # "none"
    \/ \E k \in DOMAIN stack : stack[k].mode = "merge" /\ stack[k].func = f

\* C22: a merge is attempted for a function only if it is an event with
\* more than one body, not zeek_init, all of whose bodies are analysed and
\* none of whose bodies is in a group; otherwise the function keeps its
\* bodies and every record keeps its body.
C22_MergeOnlyIfAllQualify ==
    \A f \in Funcs :
        LET qualifies ==
                /\ flavor[f] = "event"
                /\ Cardinality(BodiesOf(f)) > 1
                /\ \A i \in BodiesOf(f) :
                      funcs[i].fname # "zeek_init" /\ funcs[i].analyze /\ ~funcs[i].group
        IN  /\ MergeAttempted(f) => qualifies
            /\ ~qualifies =>
                  /\ func_bodies[f] = OriginalBodies(f)
                  /\ \A i \in BodiesOf(f) :
                        finfo[i].body = i /\ finfo[i].analyze = funcs[i].analyze

\* C22 witness: the scan is over for an event of which one body is in a
\* group and another is not, and no merge was attempted.
C22_Witness ==
    /\ apc = "inline"
    /\ \E i, j \in BodiesOf(MultiFunc) : funcs[i].group /\ ~funcs[j].group
    /\ ~MergeAttempted(MultiFunc)
    /\ func_bodies[MultiFunc] = OriginalBodies(MultiFunc)

----------------------------------------------------------------------------
\* The frame size after InlineFunction.

\* The largest sum of callee frame sizes along a chain of nested inline
\* expressions in the statement list items; a callee's frame size is the
\* one it has when its body is substituted, the length of its scope.
RECURSIVE InlinedExtent(_)
InlinedExtent(items) ==
    LET inl == {i \in DOMAIN items : items[i].k = "inline"}
        ext == {ScopeLength(items[i].f) + InlinedExtent(items[i].sub) : i \in inl}
    IN  IF inl = {} THEN 0 ELSE CHOOSE m \in ext : \A x \in ext : x <= m

\* InlineFunction returns for the FuncInfo on the stack.
InlineFunctionReturns == apc = "inline" /\ Len(stack) = 1 /\ stack' = << >>

\* C23: when InlineFunction(f) returns, the frame size of f's function is
\* the larger of what it was and the length of f's scope plus the largest
\* chain of callee frames in f's body; no frame size ever decreases.
C23_FrameSizeAfterInline ==
    [][(InlineFunctionReturns =>
            LET f == funcs[Top.fi].func
                grown == finfo[Top.fi].scope.length + InlinedExtent(stmts'[Top.body].items)
            IN  func_frame_size'[f] =
                    IF grown > func_frame_size[f] THEN grown ELSE func_frame_size[f])
       /\ (func_frame_size # << >> =>
              \A g \in Funcs : func_frame_size'[g] >= func_frame_size[g])]_vars

\* C23 witness: MidFunc has been rewritten with two sibling substitutions
\* of LeafFunc, and its frame has grown by one frame of LeafFunc.
C23_Witness ==
    /\ apc \in {"inline", "done"} /\ stack = << >>
    /\ \E i \in BodiesOf(MidFunc) :
          /\ Len(stmts[i].items) = 2
          /\ \A k \in 1..2 : stmts[i].items[k].k = "inline" /\ stmts[i].items[k].f = LeafFunc
    /\ func_frame_size[MidFunc] = ScopeLength(MidFunc) + ScopeLength(LeafFunc)

----------------------------------------------------------------------------
\* The instruction for sub_bytes.

\* The positions of the arguments with the given tag, in argument order.
RECURSIVE ArgsTagged(_, _, _)
ArgsTagged(args, tag, i) ==
    IF i > Len(args) THEN << >>
    ELSE (IF args[i].tag = tag THEN << i >> ELSE << >>) \o ArgsTagged(args, tag, i + 1)

\* C24: for sub_bytes, the opcode is the table's entry for the mask with
\* argument 0 as highest bit, and the operands hold the named arguments in
\* argument order, then the constant second and third arguments in
\* argument order, then the embedded constant if argument 0 is constant.
C24_ShapeSelection ==
    Selected("sub_bytes") =>
        LET args == bif_call.args
            bit(i) == IF args[i].tag = "const" THEN 1 ELSE 0
            mask == 4 * bit(1) + 2 * bit(2) + bit(3)
            consts == ArgsTagged(args, "const", 2)
            expected == ArgsTagged(args, "name", 1) \o consts
                            \o (IF args[1].tag = "const" THEN << 1 >> ELSE << >>)
        IN  IF ~bif_call.n THEN bif_out[1].insts = << >>
            ELSE /\ bif_out[1].ok /\ Len(bif_out[1].insts) = 1
                 /\ bif_out[1].insts[1].op = sub_bytes_info[mask]
                 /\ [k \in 1..3 |-> bif_out[1].insts[1].operands[k].arg] = expected
                 /\ \A k \in 1..3 :
                       bif_out[1].insts[1].operands[k].kind =
                           IF args[expected[k]].tag = "name" THEN "slot"
                           ELSE IF expected[k] = 1 THEN "const" ELSE "int"

\* C24 witness: sub_bytes with a constant string and a constant start.
C24_Witness ==
    /\ Selected("sub_bytes") /\ bif_call.n
    /\ bif_call.args[1].tag = "const" /\ bif_call.args[2].tag = "const"
    /\ bif_call.args[3].tag = "name"
    /\ bif_out[1].ok

\* C30: the integer operand stored for a constant argument of sub_bytes is
\* the constant's value.
C30_ImmediateKeepsValue ==
    (Selected("sub_bytes") /\ bif_call.n) =>
        \A k \in DOMAIN bif_out[1].insts[1].operands :
            LET o == bif_out[1].insts[1].operands[k]
            IN  o.kind = "int" => o.val = bif_call.args[o.arg].val

----------------------------------------------------------------------------
\* The instructions for sort.

\* C25: the instruction with a comparator is appended only for at most two
\* arguments of which the first is a vector and the second a directly named
\* function that has a value, yields int and takes exactly two parameters
\* of the vector's element type; the one-argument instruction only for a
\* vector of integral or double elements; otherwise the selection declines
\* and appends nothing.
C25_SortOnlyWhenTypesFit ==
    Selected("sort") =>
        LET args == bif_call.args
            t == bif_call.types
            out == bif_out[1]
        IN  /\ out.ok <=> Len(out.insts) = 1
            /\ Len(out.insts) <= 1
            /\ \A k \in DOMAIN out.insts :
                  /\ out.insts[k].op \in {"OP_SORT_WITH_CMP_VV", "OP_SORT_V"}
                  /\ out.insts[k].op = "OP_SORT_WITH_CMP_VV" =>
                        /\ Len(args) = 2 /\ t.vector
                        /\ args[2].tag = "name" /\ t.func /\ t.hasval
                        /\ t.yield = "int"
                        /\ Len(t.params) = 2
                        /\ t.params[1] = t.elt /\ t.params[2] = t.elt
                        /\ out.insts[k].operands = << args[1].id, args[2].id >>
                  /\ out.insts[k].op = "OP_SORT_V" =>
                        /\ Len(args) = 1 /\ t.vector
                        /\ t.elt \in {"count", "int", "double", "time"}
                        /\ out.insts[k].operands = << args[1].id >>

\* C25 witness: a sort with a fitting comparator was selected, and one with
\* a comparator over another type than the elements' was declined.
C25_Witness ==
    /\ Selected("sort") /\ Len(bif_call.args) = 2 /\ bif_call.types.vector
    /\ bif_call.types.elt = "count" /\ bif_call.types.params = << "count", "count" >>
    /\ bif_out[1].ok /\ bif_out[1].insts[1].op = "OP_SORT_WITH_CMP_VV"

----------------------------------------------------------------------------
\* Executions one after another.

\* The instructions of activation a hold a call.
HasCall(a) == \E i \in DOMAIN zbodies[a.body].insts : zbodies[a.body].insts[i].op = "call"

\* C26: every execution starts at instruction 0 with the error flag clear,
\* whatever the flag was; with the flag set no instruction is dispatched,
\* the execution returns; and an execution of a body without calls returns
\* after its last instruction or after the error it has reported itself.
C26_ExecutionsIndependent ==
    [][/\ (Len(xstack') = Len(xstack) + 1 =>
              /\ xstack'[Len(xstack')].pc = 0
              /\ ~xstack'[Len(xstack')].raised
              /\ ~ZAM_error')
       /\ ((xstack # << >> /\ ZAM_error) =>
              \/ (~XTop.in_call /\ xstack' = SubSeq(xstack, 1, Len(xstack) - 1))
              \/ (XTop.in_call /\ XTop.pending = << >> /\ Len(xstack') = Len(xstack)
                    /\ xstack'[Len(xstack)].pc = XTop.pc + 1)
              \/ (XTop.in_call /\ XTop.pending # << >> /\ Len(xstack') = Len(xstack) + 1))
       /\ ((xstack # << >> /\ Len(xstack') < Len(xstack) /\ ~HasCall(XTop)) =>
              \/ XTop.pc = Len(zbodies[XTop.body].insts)
              \/ (XTop.raised /\ zbodies[XTop.body].insts[XTop.pc].op = "error"))]_vars

\* C26 witness: every body reports an error with its first instruction; the
\* first execution has ended with it, and the second one has dispatched its
\* first instruction all the same.
C26_Witness ==
    /\ \A b \in DOMAIN zbodies : zbodies[b].insts[1].op = "error"
    /\ runs = 2
    /\ Len(xstack) = 1 /\ XTop.pc = 1 /\ XTop.raised

----------------------------------------------------------------------------
\* SpecUnwind: a body whose instructions include calls inside a "when".

InitUnwind == FrameStart(InstSet \cup {WhenCallInst})

NextUnwind ==
    DoExecBegin \/ ExecNop \/ ExecAssign \/ ExecError \/ ExecWhenCall \/ DoExecEnd

SpecUnwind == InitUnwind /\ [][NextUnwind]_vars

\* C27: when no execution is running, the managed slots of a fixed frame
\* are empty, a frame made for the execution has been freed, and every
\* managed value that was stored in a slot has been released.
C27_ReleasedOnEveryExit ==
    epc = "idle" =>
        /\ fixed_frame # NoFrame => \A s \in managed_slots : fixed_frame[s] = EmptyVal
        /\ fixed_frame = NoFrame => frame = NoFrame
        /\ \A id \in DOMAIN released : released[id] = 1

----------------------------------------------------------------------------
\* What a merge that was given up leaves behind.

\* The scope the function f has before CollapseEventHandlers.
OriginalFuncScope(f) ==
    BodyScope(funcs, CHOOSE i \in DOMAIN funcs :
                        /\ funcs[i].func = f
                        /\ \A j \in DOMAIN funcs : funcs[j].func = f => j <= i)

\* The record of body i before CollapseEventHandlers.
OriginalFinfo(i) ==
    [body |-> i, analyze |-> funcs[i].analyze, scope |-> BodyScope(funcs, i), profile |-> i]

\* C28: after a merge that was given up, and until CollapseEventHandlers
\* returns, the function has the scope and the frame size it had, and the
\* record of each of its bodies its body, scope, profile and flag.
C28_AbortLeavesRecords ==
    \A e \in Funcs :
        (merge_result[e] = "aborted" /\ apc = "collapse") =>
            /\ func_scope[e] = OriginalFuncScope(e)
            /\ func_frame_size[e] = ScopeLength(e)
            /\ \A i \in BodiesOf(e) : finfo[i] = OriginalFinfo(i)

----------------------------------------------------------------------------
\* SpecProfile: the executions of SpecExec with profiling.

\* A conditional branch over the next instruction, as of "if ( c ) f();":
\* the instruction after it is dispatched next, or the one after that.
BranchInst == [op |-> "branch"]

BranchPrograms == {<< BranchInst, c, [op |-> "nop"] >> : c \in CallInsts}

XBranch ==
    /\ XDispatching
    /\ XInst = BranchInst
    /\ \E skip \in 1..2 : xstack' = XSetTop([XTop EXCEPT !.pc = @ + skip])
    /\ DO_ZAM_PROFILE(XTop.body, XTop.pc)
    /\ UNCHANGED <<profile_ZAM, caller_locs, curr_prof_vec>>
    /\ UNCHANGED <<zbodies, new_frames, runs, ended, ZAM_error, frameRest>>
    /\ UNCHANGED <<analyzeVars, inlineVars, vecVars, bifVars, telemetryVars>>

InitExecProfiled == ExecStart(TRUE, ExecPrograms \cup BranchPrograms)

NextProfile ==
    HostExec \/ XNop \/ XError \/ XBranch \/ XCall \/ XInvoke \/ XCallDone \/ XReturn

SpecProfile == InitExecProfiled /\ [][NextProfile]_vars

\* The hit counts of body b with one more hit at the instruction at of the
\* vector with key k.
OneMoreHit(b, k, at) == [prof_vecs EXCEPT ![b][k][at + 1] = @ + 1]

\* C29: every instruction an activation dispatches adds one hit at its pc
\* in the vector of the calls that were under way when the activation
\* started, and no other hit; and when a call instruction is over,
\* caller_locs is what it was before the call.
C29_HitsInOwnContext ==
    [][/\ ((XDispatching /\ xstack' # xstack) =>
              prof_vecs' = OneMoreHit(XTop.body, XTop.started_at, XTop.pc))
       /\ ((xstack # << >> /\ XTop.in_call /\ XTop.pending = << >> /\ xstack' # xstack) =>
              caller_locs' = XTop.started_at)]_vars

====
